---- MODULE Spec2Model ----
(***************************************************************************)
(* ZipCache: a three-tier key/value cache.  The router (src/zipcache.c)    *)
(* places TINY/MEDIUM objects in a DRAM B+tree, LARGE objects in an        *)
(* append-only file indexed by the LO B+tree, and reads DRAM -> LO -> SSD. *)
(* The compressed DRAM tree (src/DRAM-tier/lib/bplustree_compressed.c)     *)
(* keeps a per-leaf write buffer drained by a background flusher.          *)
(***************************************************************************)
EXTENDS Integers, Sequences, FiniteSets, TLC

(***************************************************************************)
(* Bounds of the model.                                                    *)
(***************************************************************************)
NumKeys == 2          \* distinct key strings "a", "b", ...
NumBufs == 4          \* caller-owned value buffers
MaxSize == 3          \* largest value buffer, in bytes
MaxOps == 4           \* router calls explored per behaviour
DramCapacityMb == 1   \* dram_capacity_mb handed to zipcache_init_ex
MiB == 4              \* bytes of a megabyte (1024 * 1024 in the source)
DRAM_PAGE == 2        \* bytes of a DRAM page (4096 in the source)
TinyMax == 1          \* tiny_max handed to zipcache_init_ex
MediumMax == 2        \* medium_max handed to zipcache_init_ex
NumThreads == 2       \* threads calling the router concurrently
MaxCalls == 3         \* concurrent router calls explored per behaviour
LeafEntries == 8      \* entries handed to bplus_tree_compressed_init_with_config
SubPages == 2         \* config.default_sub_pages
MAX_BUFFER_ENTRIES == 2   \* slots of a leaf's write buffer (32 in the source)
FlushMargin == 0          \* MAX_BUFFER_ENTRIES - flush_threshold of the default config (4 in the source)
NumDramKeys == 3      \* keys put into the compressed DRAM tree
NumDramVals == 2      \* values put into the compressed DRAM tree
MaxDramOps == 4       \* calls on the compressed DRAM tree per behaviour
ENTRIES_PER_SUB_PAGE == 2     \* key/value slots of an SSD sub-page (340 in the source)
SUB_PAGES_PER_SUPER_LEAF == 2 \* sub-pages of a super-leaf (16 in the source)
BPLUS_MAX_ORDER == 3  \* children of the SSD tree's leaf parent (64 in the source)
TotalBlocks == 8      \* 4 KiB blocks of the block file (262144 in the source)
NumSsdKeys == 4       \* keys 0 .. NumSsdKeys are put into the SSD tier
MaxSsdOps == 6        \* calls on the SSD tree per behaviour
NumLeafKeys == 2      \* keys 0 .. NumLeafKeys are used on the directly driven super-leaf
MaxLeafOps == 5       \* calls on the directly driven super-leaf per behaviour
LoEntries == 2        \* BPLUS_MAX_ENTRIES of the large-object tree, 64 in the source
LoOrder == 3          \* the order the large-object tree is created with
NumLoKeys == 5        \* keys 1 .. NumLoKeys are put into the large-object tree
MaxLoOps == 6         \* calls on the large-object tree per behaviour
MaxLockCalls == 3     \* client calls explored in the lock model per behaviour
AllocBlocks == 4      \* blocks of the directly driven block allocator
MaxAllocOps == 4      \* calls on the directly driven block allocator per behaviour
MaxFreeIds == 2       \* longest id array handed to free_multiple_blocks
MaxThreshold == 4     \* thresholds 0 .. MaxThreshold are handed to zipcache_set_thresholds
MaxEvictions == 1     \* eviction cycles of the eviction thread per behaviour
NumLifeThreads == 1   \* threads calling the router while it is destroyed
MaxLiveOps == 2       \* calls on the cache and on the compressed tree before they are shut down
HashKeyMax == 8       \* keys -HashKeyMax .. HashKeyMax are hashed, and the ends of int
HashSubPages == 4     \* sub-page counts 0 .. HashSubPages are hashed into

(***************************************************************************)
(* Machine arithmetic.                                                     *)
(***************************************************************************)
RECURSIVE Xor(_, _)
Xor(a, b) ==
    IF a = 0 THEN b
    ELSE IF b = 0 THEN a
    ELSE (((a % 2) + (b % 2)) % 2) + 2 * Xor(a \div 2, b \div 2)

\* A uint32_t as two 16-bit halves <<hi, lo>>.
U32Xor8(w, c) == <<w[1], Xor(w[2], c)>>

\* w * 16777619 mod 2^32, with 16777619 = 2^24 + 403.
U32MulPrime(w) ==
    LET lo403 == w[2] * 403
        hi403 == (w[1] * 403) + (lo403 \div 65536) + ((w[2] % 256) * 256)
    IN  <<hi403 % 65536, lo403 % 65536>>

\* (int)(uint32_t): the two's complement reading of the word.
U32ToInt(w) ==
    IF w[1] >= 32768 THEN (w[1] - 65536) * 65536 + w[2]
    ELSE w[1] * 65536 + w[2]

(***************************************************************************)
(* Keys, value buffers.                                                    *)
(***************************************************************************)
\* The element of a one-element set.  Only({e(x) : x \in {v}}) is e(v), with
\* v computed once.
Only(S) == CHOOSE x \in S : TRUE

Keys == 1..NumKeys
KeyStr(k) == <<96 + k>>                   \* "a", "b", ...

Bufs == 1..NumBufs
SizeOf(b) == MaxSize - ((b - 1) % MaxSize)
ByteVals == 0..2
BufBytes(b) == [i \in 1..SizeOf(b) |-> ((b \div 2) + i) % 3]
BufAddr(b) == 8 * b                       \* where the caller keeps buffer b
AddrBytes(p) == BufBytes(p \div 8)        \* the bytes found at address p

\* zipcache_hash_key: FNV-1a over the key string.
RECURSIVE FnvLoop(_, _, _)
FnvLoop(str, i, hash) ==
    IF i > Len(str) THEN hash
    ELSE FnvLoop(str, i + 1, U32MulPrime(U32Xor8(hash, str[i])))

zipcache_hash_key(str) == FnvLoop(str, 1, <<33052, 40389>>)

\* key_t key_hash = zipcache_hash_key(key), narrowed to int.
KeyHash == [k \in Keys |-> U32ToInt(zipcache_hash_key(KeyStr(k)))]

\* zipcache_checksum over a byte sequence.
RECURSIVE ChecksumLoop(_, _, _)
ChecksumLoop(bytes, i, checksum) ==
    IF i > Len(bytes) THEN checksum
    ELSE LET c1 == Xor(checksum * 2, bytes[i])
         IN  ChecksumLoop(bytes, i + 1, Xor(c1, c1 \div 65536))

zipcache_checksum(bytes) == ChecksumLoop(bytes, 1, 0)

(***************************************************************************)
(* Result codes and object classes (src/zipcache.h).                       *)
(***************************************************************************)
ZIPCACHE_OK == 0
ZIPCACHE_ERROR == -1
ZIPCACHE_NOT_FOUND == -2
ZIPCACHE_INVALID_SIZE == -4
ZIPCACHE_IO_ERROR == -5
ZIPCACHE_TOMBSTONE == -6

ZIPCACHE_OBJ_TINY == 0
ZIPCACHE_OBJ_MEDIUM == 1
ZIPCACHE_OBJ_LARGE == 2

\* (long)ZIPCACHE_TOMBSTONE_MARKER.  The source's 0xDEADBEEF does not fit
\* TLC's 32-bit integers; the model keeps its low half 0xBEEF, which like
\* the original is positive and is no buffer's address.
ZIPCACHE_TOMBSTONE_MARKER == 48879

ZIPCACHE_PAGE_SIZE == 4096
ZIPCACHE_LARGE_THRESHOLD == 2147483647   \* SIZE_MAX, the largest size there is
ZIPCACHE_MAX_KEY_SIZE == 256

(***************************************************************************)
(* key_binary_search (shared by the B+tree variants).                      *)
(* Arrays are 1-based sequences; results are the C 0-based indexes.        *)
(***************************************************************************)
RECURSIVE BinSearchLoop(_, _, _, _)
BinSearchLoop(arr, low, high, target) ==
    IF low + 1 < high
    THEN LET mid == low + ((high - low) \div 2)
         IN  IF target > arr[mid + 1]
             THEN BinSearchLoop(arr, mid, high, target)
             ELSE BinSearchLoop(arr, low, mid, target)
    ELSE high

key_binary_search(arr, len, target) ==
    LET high == BinSearchLoop(arr, -1, len, target)
    IN  IF high >= len \/ arr[high + 1] # target THEN (-high) - 1 ELSE high

(***************************************************************************)
(* The DRAM base B+tree: one root leaf of tree.entries slots, created      *)
(* empty with the tree as bplus_tree_lo_init does.  A leaf split is        *)
(* outside the model: tree.split is raised when one would be required.     *)
(***************************************************************************)
ZeroArray(n) == [i \in 1..n |-> 0]

bplus_tree_init(order, entries) ==
    [order |-> order, entries |-> entries, root |-> TRUE, split |-> FALSE,
     leaf |-> [entries |-> 0, key |-> ZeroArray(entries),
               data |-> ZeroArray(entries)]]

\* leaf_simple_insert: shift the tail right and place the record.
base_leaf_simple_insert(leaf, key, data, insert) ==
    LET Shift(arr, x) ==
            [i \in 1..Len(arr) |->
                IF i = insert + 1 THEN x
                ELSE IF i > insert + 1 /\ i <= leaf.entries + 1 THEN arr[i - 1]
                ELSE arr[i]]
    IN  [entries |-> leaf.entries + 1,
         key |-> Shift(leaf.key, key), data |-> Shift(leaf.data, data)]

\* leaf_remove: shift the tail left; the vacated slot keeps its old bytes.
base_leaf_simple_remove(leaf, remove) ==
    LET Shift(arr) ==
            [i \in 1..Len(arr) |->
                IF i >= remove + 1 /\ i < leaf.entries THEN arr[i + 1]
                ELSE arr[i]]
    IN  [entries |-> leaf.entries - 1,
         key |-> Shift(leaf.key), data |-> Shift(leaf.data)]

\* bplus_tree_put(tree, key, data): data = 0 deletes.  Yields the tree and
\* the return value.
bplus_tree_put(tree, key, data) ==
    Only({
        IF data = 0
        THEN IF ~tree.root \/ pos < 0
             THEN [tree |-> tree, ret |-> -1]
             ELSE [tree |-> [tree EXCEPT
                       !.leaf = base_leaf_simple_remove(tree.leaf, pos)],
                   ret |-> 0]
        ELSE IF ~tree.root
             THEN [tree |-> [tree EXCEPT !.root = TRUE,
                       !.leaf = [entries |-> 1,
                                 key |-> [ZeroArray(tree.entries) EXCEPT ![1] = key],
                                 data |-> [ZeroArray(tree.entries) EXCEPT ![1] = data]]],
                   ret |-> 0]
        ELSE IF pos >= 0
             THEN [tree |-> [tree EXCEPT !.leaf.data[pos + 1] = data], ret |-> 0]
        ELSE IF tree.leaf.entries = tree.entries
             THEN [tree |-> [tree EXCEPT !.split = TRUE], ret |-> -1]
        ELSE [tree |-> [tree EXCEPT
                  !.leaf = base_leaf_simple_insert(tree.leaf, key, data, (-pos) - 1)],
              ret |-> 0]
        : pos \in {key_binary_search(tree.leaf.key, tree.leaf.entries, key)} })

\* bplus_tree_get(tree, key): the stored value, -1 when absent or deleted.
bplus_tree_get(tree, key) ==
    LET pos == IF tree.root
               THEN key_binary_search(tree.leaf.key, tree.leaf.entries, key)
               ELSE -1
    IN  IF pos >= 0 /\ tree.leaf.data[pos + 1] # 0
        THEN tree.leaf.data[pos + 1]
        ELSE -1

(***************************************************************************)
(* The LO B+tree (src/LO-tier/lib/bplustree_lo.c): key -> object_pointer.  *)
(* The model keeps the root leaf, which holds up to 64 records.            *)
(***************************************************************************)
NullObj == [lba |-> 0, size |-> 0, checksum |-> 0]

object_pointer_is_valid(optr) == optr.lba # 0 \/ optr.size # 0

bplus_tree_lo_init == [entries |-> 0, key |-> <<>>, data |-> <<>>]

InsertAt(seq, i, x) == SubSeq(seq, 1, i - 1) \o <<x>> \o SubSeq(seq, i, Len(seq))
RemoveAt(seq, i) == SubSeq(seq, 1, i - 1) \o SubSeq(seq, i + 1, Len(seq))

bplus_tree_lo_get(tree, key) ==
    LET i == key_binary_search(tree.key, tree.entries, key)
    IN  IF i >= 0 THEN tree.data[i + 1] ELSE NullObj

\* leaf_insert: update in place when the key exists, else sorted insert.
lo_leaf_insert(leaf, key, optr) ==
    LET insert == key_binary_search(leaf.key, leaf.entries, key)
    IN  IF insert >= 0
        THEN [leaf EXCEPT !.data[insert + 1] = optr]
        ELSE [entries |-> leaf.entries + 1,
              key |-> InsertAt(leaf.key, -insert, key),
              data |-> InsertAt(leaf.data, -insert, optr)]

bplus_tree_lo_put(tree, key, optr) ==
    IF ~object_pointer_is_valid(optr)
    THEN [tree |-> tree, ret |-> -1]
    ELSE [tree |-> lo_leaf_insert(tree, key, optr), ret |-> 0]

\* bplus_tree_lo_delete -> leaf_remove.
bplus_tree_lo_delete(tree, key) ==
    LET remove == key_binary_search(tree.key, tree.entries, key)
    IN  IF remove < 0
        THEN [tree |-> tree, ret |-> -1]
        ELSE [tree |-> [entries |-> tree.entries - 1,
                        key |-> RemoveAt(tree.key, remove + 1),
                        data |-> RemoveAt(tree.data, remove + 1)],
              ret |-> 0]

(***************************************************************************)
(* The SSD tier as the router sees it.                                     *)
(***************************************************************************)
bplus_tree_ssd_get(tree, key) == IF key \in DOMAIN tree THEN tree[key] ELSE -1

\* bplus_tree_ssd_put: deletion (data = 0) is not implemented.
bplus_tree_ssd_put(tree, key, data) ==
    IF data = 0
    THEN [tree |-> tree, ret |-> -1]
    ELSE [tree |-> [h \in DOMAIN tree \cup {key} |->
                       IF h = key THEN data ELSE tree[h]],
          ret |-> 0]

(***************************************************************************)
(* The router, src/zipcache.c.  c is the zipcache_t, st the contents of    *)
(* the large-object file: a sequence of 4 KiB pages, each held as the      *)
(* bytes up to its zero padding.                                           *)
(***************************************************************************)
ZeroStats ==
    [hits_dram |-> 0, hits_lo |-> 0, hits_ssd |-> 0, misses |-> 0,
     puts_tiny |-> 0, puts_medium |-> 0, puts_large |-> 0,
     promotions |-> 0, tombstones |-> 0, memory_used |-> 0,
     evictions |-> 0, memory_capacity |-> 0]

\* zipcache_init: the DRAM capacity in bytes and the eviction state, one
\* access bit per DRAM page.
dram_capacity_of(dram_capacity_mb) == dram_capacity_mb * MiB

eviction_init(dram_capacity) ==
    [total_pages |-> (dram_capacity \div DRAM_PAGE) + 1,
     access_bits |-> [i \in 1..((dram_capacity \div DRAM_PAGE) + 1) |-> 0],
     clock_hand |-> 0]

\* The NULL zipcache_init_ex returns.
NullCache == [null |-> TRUE]

\* zipcache_init_ex(dram_capacity_mb, ssd_path, tiny_max, medium_max).
zipcache_init_ex(tiny_max, medium_max) ==
    IF tiny_max = 0 \/ tiny_max >= medium_max \/ medium_max >= ZIPCACHE_LARGE_THRESHOLD
    THEN NullCache
    ELSE
    [null |-> FALSE,
     bt_dram |-> bplus_tree_init(16, 64),
     bt_lo |-> bplus_tree_lo_init,
     bt_ssd |-> <<>>,
     ssd_offset |-> 0,
     tiny_threshold |-> tiny_max,
     medium_threshold |-> medium_max,
     dram_capacity |-> dram_capacity_of(DramCapacityMb),
     ssd_fd |-> 3,
     shutdown_flag |-> 0,
     eviction |-> eviction_init(dram_capacity_of(DramCapacityMb)),
     stats |-> [ZeroStats EXCEPT !.memory_capacity = dram_capacity_of(DramCapacityMb)]]

\* zipcache_needs_eviction: usage / dram_capacity >= 0.9 in doubles; with a
\* capacity of 0 the quotient is NaN for usage 0 and infinite otherwise.
zipcache_needs_eviction(c) ==
    IF c.dram_capacity = 0 THEN c.stats.memory_used > 0
    ELSE 10 * c.stats.memory_used >= 9 * c.dram_capacity

\* Variant: a page with its access bit set is evicted like a cold one.
evict_step_no_second_chance(c) ==
    [c EXCEPT !.stats.memory_used = IF @ >= DRAM_PAGE THEN @ - DRAM_PAGE ELSE @,
              !.eviction.access_bits[c.eviction.clock_hand + 1] = 0,
              !.eviction.clock_hand = (@ + 1) % c.eviction.total_pages]

\* zipcache_evict_cold_pages, one turn of the loop on the page under the
\* clock hand.
evict_step(c) ==
    IF c.eviction.access_bits[c.eviction.clock_hand + 1] # 0
    THEN [c EXCEPT !.eviction.access_bits[c.eviction.clock_hand + 1] = 0,
                   !.eviction.clock_hand = (@ + 1) % c.eviction.total_pages]
    ELSE [c EXCEPT !.stats.memory_used = IF @ >= DRAM_PAGE THEN @ - DRAM_PAGE ELSE @,
                   !.eviction.clock_hand = (@ + 1) % c.eviction.total_pages]

\* zipcache_evict_cold_pages: max_scan.
max_scan_of(total_pages) == total_pages * 2

\* zipcache_evict_cold_pages, the loop.  scan lists the pages visited, each
\* with the access bit found and whether the page was evicted.
RECURSIVE EvictLoop(_, _, _, _, _)
EvictLoop(c, target_bytes, evicted_bytes, pages_scanned, scan) ==
    IF ~(evicted_bytes < target_bytes
            /\ pages_scanned < max_scan_of(c.eviction.total_pages))
    THEN [cache |-> c, result |-> ZIPCACHE_OK, evicted_bytes |-> evicted_bytes,
          pages_scanned |-> pages_scanned, scan |-> scan]
    ELSE Only({ EvictLoop(next, target_bytes,
                          IF bit # 0 THEN evicted_bytes ELSE evicted_bytes + DRAM_PAGE,
                          pages_scanned + 1,
                          Append(scan, [page_idx |-> c.eviction.clock_hand, bit |-> bit,
                                        used |-> next.stats.memory_used]))
              : bit \in {c.eviction.access_bits[c.eviction.clock_hand + 1]},
                next \in {evict_step(c)} })

zipcache_evict_cold_pages(c, target_bytes) == EvictLoop(c, target_bytes, 0, 0, <<>>)

\* zipcache_validate_consistency(cache): 1 when consistent.
zipcache_validate_consistency(c) ==
    IF c.stats.memory_used > c.stats.memory_capacity THEN 0
    ELSE IF c.eviction.clock_hand >= c.eviction.total_pages THEN 0
    ELSE IF c.ssd_fd < 0 THEN 0
    ELSE 1

\* zipcache_eviction_thread: target_bytes = dram_capacity * 0.1.
eviction_target(c) == c.dram_capacity \div 10

\* Variant: tiny_max is not compared with medium_max.
set_thresholds_unordered(c, tiny_max, medium_max) ==
    IF tiny_max = 0 \/ medium_max >= ZIPCACHE_LARGE_THRESHOLD
    THEN [cache |-> c, result |-> ZIPCACHE_INVALID_SIZE]
    ELSE [cache |-> [c EXCEPT !.tiny_threshold = tiny_max,
                              !.medium_threshold = medium_max],
          result |-> ZIPCACHE_OK]

\* zipcache_set_thresholds(cache, tiny_max, medium_max).
zipcache_set_thresholds(c, tiny_max, medium_max) ==
    IF tiny_max = 0 \/ tiny_max >= medium_max \/ medium_max >= ZIPCACHE_LARGE_THRESHOLD
    THEN [cache |-> c, result |-> ZIPCACHE_INVALID_SIZE]
    ELSE [cache |-> [c EXCEPT !.tiny_threshold = tiny_max,
                              !.medium_threshold = medium_max],
          result |-> ZIPCACHE_OK]

\* Variant: a size at a threshold goes to the next class.
classify_object_below(c, size) ==
    IF size < c.tiny_threshold THEN ZIPCACHE_OBJ_TINY
    ELSE IF size < c.medium_threshold THEN ZIPCACHE_OBJ_MEDIUM
    ELSE ZIPCACHE_OBJ_LARGE

zipcache_classify_object(c, size) ==
    IF size <= c.tiny_threshold THEN ZIPCACHE_OBJ_TINY
    ELSE IF size <= c.medium_threshold THEN ZIPCACHE_OBJ_MEDIUM
    ELSE ZIPCACHE_OBJ_LARGE

\* Variant: the length of the key is not looked at.
put_arguments_any_key(has_key, keylen, has_value, size) ==
    IF ~has_key \/ ~has_value \/ size = 0 THEN ZIPCACHE_ERROR
    ELSE IF size > ZIPCACHE_LARGE_THRESHOLD THEN ZIPCACHE_INVALID_SIZE
    ELSE ZIPCACHE_OK

\* zipcache_put, the checks of its arguments: the result it returns at
\* once, ZIPCACHE_OK when it goes on.  keylen is strlen(key).
zipcache_put_arguments(has_key, keylen, has_value, size) ==
    IF ~has_key \/ ~has_value \/ size = 0 THEN ZIPCACHE_ERROR
    ELSE IF size > ZIPCACHE_LARGE_THRESHOLD \/ keylen > ZIPCACHE_MAX_KEY_SIZE
    THEN ZIPCACHE_INVALID_SIZE
    ELSE ZIPCACHE_OK

\* pwrite(fd, buf, Len(buf) rounded up to whole pages, offset).
PagesOf(bytes, npages) ==
    [j \in 1..npages |->
        SubSeq(bytes, (j - 1) * ZIPCACHE_PAGE_SIZE + 1,
               IF j * ZIPCACHE_PAGE_SIZE < Len(bytes)
               THEN j * ZIPCACHE_PAGE_SIZE ELSE Len(bytes))]

pwrite(st, bytes, aligned_size, offset) ==
    LET first == offset \div ZIPCACHE_PAGE_SIZE
        npages == aligned_size \div ZIPCACHE_PAGE_SIZE
        pages == PagesOf(bytes, npages)
        newlen == IF first + npages > Len(st) THEN first + npages ELSE Len(st)
    IN  [j \in 1..newlen |->
            IF j > first /\ j <= first + npages THEN pages[j - first]
            ELSE IF j <= Len(st) THEN st[j] ELSE <<>>]

\* pread(fd, buf, size, lba): the bytes read, fewer than size at end of file.
ByteAt(st, pos) ==
    LET page == st[(pos \div ZIPCACHE_PAGE_SIZE) + 1]
        off == pos % ZIPCACHE_PAGE_SIZE
    IN  IF off < Len(page) THEN page[off + 1] ELSE 0

pread(st, size, lba) ==
    LET flen == Len(st) * ZIPCACHE_PAGE_SIZE
        n == IF lba >= flen THEN 0
             ELSE IF lba + size > flen THEN flen - lba ELSE size
    IN  [i \in 1..n |-> ByteAt(st, lba + i - 1)]

\* zipcache_write_large_object with the append offset left where it was.
write_large_object_in_place(c, st, value) ==
    LET size == Len(value)
        aligned_size == ((size + 4095) \div 4096) * 4096
        write_offset == c.ssd_offset
    IN  [cache |-> c,
         storage |-> pwrite(st, value, aligned_size, write_offset),
         descriptor |-> [lba |-> write_offset, size |-> size,
                         checksum |-> zipcache_checksum(value)],
         result |-> ZIPCACHE_OK]

zipcache_write_large_object(c, st, value) ==
    LET size == Len(value)
        aligned_size == ((size + 4095) \div 4096) * 4096
        write_offset == c.ssd_offset
    IN  [cache |-> [c EXCEPT !.ssd_offset = write_offset + aligned_size],
         storage |-> pwrite(st, value, aligned_size, write_offset),
         descriptor |-> [lba |-> write_offset, size |-> size,
                         checksum |-> zipcache_checksum(value)],
         result |-> ZIPCACHE_OK]

zipcache_read_large_object(st, descriptor) ==
    LET buffer == pread(st, descriptor.size, descriptor.lba)
    IN  IF Len(buffer) # descriptor.size
        THEN [result |-> ZIPCACHE_IO_ERROR, bytes |-> <<>>, size |-> 0]
        ELSE IF zipcache_checksum(buffer) # descriptor.checksum
        THEN [result |-> ZIPCACHE_IO_ERROR, bytes |-> <<>>, size |-> 0]
        ELSE [result |-> ZIPCACHE_OK, bytes |-> buffer, size |-> descriptor.size]

\* Variant: the large version is left in the LO index.
invalidate_stale_keeps_lo(c, k) == c

\* zipcache_invalidate_stale for a TINY/MEDIUM new_type.
zipcache_invalidate_stale(c, k) ==
    LET optr == bplus_tree_lo_get(c.bt_lo, KeyHash[k])
    IN  IF object_pointer_is_valid(optr)
        THEN [c EXCEPT !.bt_lo = bplus_tree_lo_delete(c.bt_lo, KeyHash[k]).tree]
        ELSE c

\* Variant: every small PUT is counted as a tiny one.
route_put_dram_counts_tiny(c, k, b, type) ==
    LET r == bplus_tree_put(c.bt_dram, KeyHash[k], BufAddr(b))
    IN  IF r.ret = 0
        THEN [cache |-> [c EXCEPT
                  !.bt_dram = r.tree,
                  !.stats.puts_tiny = @ + 1,
                  !.stats.memory_used = @ + SizeOf(b)],
              result |-> ZIPCACHE_OK]
        ELSE [cache |-> c, result |-> ZIPCACHE_ERROR]

\* zipcache_route_put, TINY/MEDIUM case, up to the DRAM insert.
route_put_dram(c, k, b, type) ==
    Only({
        IF r.ret = 0
        THEN [cache |-> [c EXCEPT
                  !.bt_dram = r.tree,
                  !.stats.puts_tiny = @ + (IF type = ZIPCACHE_OBJ_TINY THEN 1 ELSE 0),
                  !.stats.puts_medium = @ + (IF type = ZIPCACHE_OBJ_TINY THEN 0 ELSE 1),
                  !.stats.memory_used = @ + SizeOf(b)],
              result |-> ZIPCACHE_OK]
        ELSE [cache |-> c, result |-> ZIPCACHE_ERROR]
        : r \in {bplus_tree_put(c.bt_dram, KeyHash[k], BufAddr(b))} })

\* zipcache_route_put, LARGE case, up to the LO insert.
route_put_lo(c, st, k, b) ==
    Only({ Only({
        IF w.result # ZIPCACHE_OK
        THEN [cache |-> w.cache, storage |-> w.storage, result |-> w.result]
        ELSE IF r.ret = 0
        THEN [cache |-> [w.cache EXCEPT !.bt_lo = r.tree,
                                        !.stats.puts_large = @ + 1],
              storage |-> w.storage, result |-> ZIPCACHE_OK]
        ELSE [cache |-> w.cache, storage |-> w.storage, result |-> ZIPCACHE_ERROR]
        : r \in {bplus_tree_lo_put(w.cache.bt_lo, KeyHash[k], w.descriptor)} })
        : w \in {zipcache_write_large_object(c, st, BufBytes(b))} })

\* Variant: the tombstone is counted but not inserted.
route_put_no_tombstone(c, k) == [c EXCEPT !.stats.tombstones = @ + 1]

\* zipcache_route_put, LARGE case, the tombstone that follows the LO insert.
route_put_tombstone(c, k) ==
    [c EXCEPT
        !.bt_dram = bplus_tree_put(c.bt_dram, KeyHash[k], ZIPCACHE_TOMBSTONE_MARKER).tree,
        !.stats.tombstones = @ + 1]

zipcache_route_put(c, st, k, b, type) ==
    IF type = ZIPCACHE_OBJ_LARGE
    THEN Only({
             IF w.result = ZIPCACHE_OK
             THEN [cache |-> route_put_tombstone(w.cache, k),
                   storage |-> w.storage, result |-> ZIPCACHE_OK]
             ELSE w
             : w \in {route_put_lo(c, st, k, b)} })
    ELSE Only({
             IF d.result = ZIPCACHE_OK
             THEN [cache |-> zipcache_invalidate_stale(d.cache, k),
                   storage |-> st, result |-> ZIPCACHE_OK]
             ELSE [cache |-> d.cache, storage |-> st, result |-> d.result]
             : d \in {route_put_dram(c, k, b, type)} })

\* What a GET hands back: the result code, *value, *size and the bytes
\* found at *value.
NoValue(c, result) ==
    [cache |-> c, result |-> result, value |-> 0, size |-> 0, bytes |-> <<>>]

\* zipcache_coordinated_read, step 1 (DRAM).  done = FALSE: go on to step 2.
read_dram(c, k) ==
    LET dram_result == bplus_tree_get(c.bt_dram, KeyHash[k])
    IN  IF dram_result > 0
        THEN IF dram_result = ZIPCACHE_TOMBSTONE_MARKER
             THEN [done |-> TRUE,
                   out |-> NoValue([c EXCEPT !.stats.misses = @ + 1],
                                   ZIPCACHE_TOMBSTONE)]
             ELSE [done |-> TRUE,
                   out |-> [cache |-> [c EXCEPT !.stats.hits_dram = @ + 1],
                            result |-> ZIPCACHE_OK, value |-> dram_result,
                            size |-> 0, bytes |-> AddrBytes(dram_result)]]
        ELSE [done |-> FALSE, out |-> NoValue(c, ZIPCACHE_NOT_FOUND)]

\* zipcache_promote_object(cache, key, value, size).
zipcache_promote_object(c, k, value, size) ==
    LET r == bplus_tree_put(c.bt_dram, KeyHash[k], value)
    IN  IF r.ret = 0
        THEN [c EXCEPT !.bt_dram = r.tree, !.stats.memory_used = @ + size]
        ELSE c

\* zipcache_coordinated_read, step 3 and 4 (SSD tier, miss).
read_ssd(c, k) ==
    LET ssd_result == bplus_tree_ssd_get(c.bt_ssd, KeyHash[k])
    IN  IF ssd_result > 0
        THEN LET hit == [c EXCEPT !.stats.hits_ssd = @ + 1]
                 pro == IF 0 <= c.medium_threshold
                        THEN [zipcache_promote_object(hit, k, ssd_result, 0)
                                 EXCEPT !.stats.promotions = @ + 1]
                        ELSE hit
             IN  [cache |-> pro, result |-> ZIPCACHE_OK, value |-> ssd_result,
                  size |-> 0, bytes |-> AddrBytes(ssd_result)]
        ELSE NoValue([c EXCEPT !.stats.misses = @ + 1], ZIPCACHE_NOT_FOUND)

\* zipcache_coordinated_read, step 2 (LO tier) and what follows it.
read_lo(c, st, k) ==
    LET optr == bplus_tree_lo_get(c.bt_lo, KeyHash[k])
        rd == zipcache_read_large_object(st, optr)
    IN  IF object_pointer_is_valid(optr) /\ rd.result = ZIPCACHE_OK
        THEN [cache |-> [c EXCEPT !.stats.hits_lo = @ + 1],
              result |-> ZIPCACHE_OK, value |-> 0,
              size |-> rd.size, bytes |-> rd.bytes]
        ELSE read_ssd(c, k)

zipcache_coordinated_read(c, st, k) ==
    LET d == read_dram(c, k)
    IN  IF d.done THEN d.out ELSE read_lo(d.out.cache, st, k)

\* Variant: the DRAM tier is taken to have deleted whatever it returns.
delete_dram_unchecked(c, k) ==
    LET r == bplus_tree_put(c.bt_dram, KeyHash[k], 0)
    IN  [cache |-> [c EXCEPT !.bt_dram = r.tree], result |-> ZIPCACHE_OK]

\* zipcache_delete, the DRAM tier.
delete_dram(c, k) ==
    LET r == bplus_tree_put(c.bt_dram, KeyHash[k], 0)
    IN  [cache |-> [c EXCEPT !.bt_dram = r.tree],
         result |-> IF r.ret = 0 THEN ZIPCACHE_OK ELSE ZIPCACHE_NOT_FOUND]

\* zipcache_delete, the LO and SSD tiers; result is the code so far.
delete_lower(c, k, result) ==
    LET lo == bplus_tree_lo_delete(c.bt_lo, KeyHash[k])
        ssd == bplus_tree_ssd_put(c.bt_ssd, KeyHash[k], 0)
    IN  [cache |-> [c EXCEPT !.bt_lo = lo.tree, !.bt_ssd = ssd.tree],
         result |-> IF lo.ret = 0 \/ ssd.ret = 0 THEN ZIPCACHE_OK ELSE result]

zipcache_delete_locked(c, k) ==
    LET d == delete_dram(c, k)
    IN  delete_lower(d.cache, k, d.result)

(***************************************************************************)
(* State.                                                                  *)
(***************************************************************************)
VARIABLES
    cache,      \* the zipcache_t
    storage,    \* the large-object file
    last,       \* the router call that returned last, with what it returned
    expect,     \* per key: -1 untouched, 0 deleted, else the buffer last PUT
    damaged,    \* the environment has altered the large-object file
    ops,        \* router calls made so far
    \* concurrent callers of the router
    cache_lock, \* cache->cache_lock: 0 when free, else the holder
    pc,         \* per thread: "idle", "lock", "step1", "step2", "unlock"
    call,       \* per thread: the call in progress and what it returns
    want,       \* per thread: what the call returns when run alone
    ref,        \* the cache and file after the calls so far, run one by one
    \* the compressed DRAM tree
    dram,       \* the bplus_tree_compressed and its leaf's metadata
    flusher,    \* background_compression_thread: "wait", "flush", "exited"
    app,        \* the caller: "running", then the steps of deinit
    dlast,      \* the call on the tree that returned last
    dmodel,     \* per key: -1 untouched, 0 deleted, else the value last put
    synced,     \* flush_all_buffers has run since the last put or delete
    dops,       \* calls on the tree so far
    \* the SSD B+tree
    ssd,        \* the bplus_tree_ssd, its super-leaves and its disk manager
    slast,      \* the call on the SSD tree that returned last
    smodel,     \* per key: 0 never put, else the value of the last put that returned 0
    sops,       \* calls on the SSD tree so far
    \* one super-leaf driven directly, as the super-leaf tests do
    sl,         \* the disk manager, the super-leaf and its right sibling
    sllast,     \* the call on the super-leaf that returned last
    slops,      \* calls on the super-leaf so far
    \* the large-object B+tree on its own
    lo,         \* the bplus_tree_lo and its nodes
    lolast,     \* the call on the tree that returned last
    lomodel,    \* per key: the descriptor of the last put, invalid after a delete
    loops,      \* calls on the tree so far
    \* the locks of the DRAM side
    lk,         \* what the lock-protected data holds: metadata entry, buffer, queue
    lowner,     \* per lock: the threads holding it
    lheld,      \* per thread: the locks it holds, in the order it acquired them
    lpc,        \* per thread: the lock call it is about to make
    lcalls,     \* client calls started so far
    \* a block allocator on its own
    ba,         \* the block_allocator
    balast,     \* the call on it that returned last
    issued,     \* the block ids handed out by a call and not freed since
    baops,      \* calls on the allocator so far
    \* the sub-page hash functions on their own
    hcall,      \* the slot computation made last
    \* the life of the cache: threshold updates, the eviction thread, destroy
    installed,  \* the threshold pairs the cache was given so far
    epc,        \* where the eviction thread is
    dpc         \* where the thread calling zipcache_destroy is

routerVars == <<cache, storage, last, expect, damaged, ops>>
threadVars == <<cache_lock, pc, call, want, ref>>

dramVars == <<dram, flusher, app, dlast, dmodel, synced, dops>>

ssdVars == <<ssd, slast, smodel, sops>>
leafVars == <<sl, sllast, slops>>
loVars == <<lo, lolast, lomodel, loops>>
lockVars == <<lk, lowner, lheld, lpc, lcalls>>
allocVars == <<ba, balast, issued, baops>>
hashVars == <<hcall>>
lifeVars == <<installed, epc, dpc>>
\* The state of the components modelled further down.
moreVars == <<ssdVars, leafVars, loVars, lockVars, allocVars, hashVars, lifeVars>>

vars == <<routerVars, threadVars, dramVars, moreVars>>

Threads == 1..NumThreads

NoCall ==
    [op |-> "none", key |-> 0, buf |-> 0, type |-> 0, result |-> 0,
     value |-> 0, size |-> 0, bytes |-> <<>>,
     keylen |-> 0, tiny_max |-> 0, medium_max |-> 0, made |-> NullCache,
     target_bytes |-> 0, evicted_bytes |-> 0, pages_scanned |-> 0, scan |-> <<>>,
     before |-> <<>>]

RouterInit ==
    /\ cache = zipcache_init_ex(TinyMax, MediumMax)
    /\ storage = <<>>
    /\ last = NoCall
    /\ expect = [k \in Keys |-> -1]
    /\ damaged = FALSE
    /\ ops = 0
    /\ cache_lock = 0
    /\ pc = [t \in Threads |-> "idle"]
    /\ call = [t \in Threads |-> NoCall]
    /\ want = [t \in Threads |-> NoCall]
    /\ ref = [cache |-> cache, storage |-> storage]

(***************************************************************************)
(* The router's public calls, each run to completion by a single caller.   *)
(***************************************************************************)
zipcache_put(k, b) ==
    /\ ops < MaxOps
    /\ LET type == zipcache_classify_object(cache, SizeOf(b))
           r == zipcache_route_put(cache, storage, k, b, type)
       IN  /\ cache' = r.cache
           /\ storage' = r.storage
           /\ last' = [NoCall EXCEPT !.op = "put", !.key = k, !.buf = b,
                                     !.type = type, !.result = r.result]
           /\ expect' = IF r.result = ZIPCACHE_OK
                        THEN [expect EXCEPT ![k] = b] ELSE expect
    /\ ops' = ops + 1
    /\ UNCHANGED <<damaged, threadVars, dramVars, moreVars>>

zipcache_get(k) ==
    /\ ops < MaxOps
    /\ LET r == zipcache_coordinated_read(cache, storage, k)
       IN  /\ cache' = r.cache
           /\ last' = [NoCall EXCEPT !.op = "get", !.key = k,
                                     !.result = r.result, !.value = r.value,
                                     !.size = r.size, !.bytes = r.bytes]
    /\ ops' = ops + 1
    /\ UNCHANGED <<storage, expect, damaged, threadVars, dramVars, moreVars>>

zipcache_delete(k) ==
    /\ ops < MaxOps
    /\ LET r == zipcache_delete_locked(cache, k)
       IN  /\ cache' = r.cache
           /\ last' = [NoCall EXCEPT !.op = "delete", !.key = k,
                                     !.result = r.result]
    /\ expect' = [expect EXCEPT ![k] = 0]
    /\ ops' = ops + 1
    /\ UNCHANGED <<storage, damaged, threadVars, dramVars, moreVars>>

\* The environment damages one stored byte of the large-object file.
CorruptStorage(p, i, v) ==
    /\ ops < MaxOps
    /\ p \in 1..Len(storage)
    /\ i \in 1..Len(storage[p])
    /\ v # storage[p][i]
    /\ storage' = [storage EXCEPT ![p][i] = v]
    /\ last' = [NoCall EXCEPT !.op = "corrupt"]
    /\ damaged' = TRUE
    /\ ops' = ops + 1
    /\ UNCHANGED <<cache, expect, threadVars, dramVars, moreVars>>

\* zipcache_put(cache, key, value, size) with arguments of every kind:
\* key = 0 is a NULL key, b = 0 a NULL value, keylen is strlen(key).
PutCall(key, keylen, b, size) ==
    /\ ops < MaxOps
    /\ \E chk \in {zipcache_put_arguments(key # 0, keylen, b # 0, size)} :
       LET type == zipcache_classify_object(cache, size)
           r == IF chk # ZIPCACHE_OK
                THEN [cache |-> cache, storage |-> storage, result |-> chk]
                ELSE zipcache_route_put(cache, storage, key, b, type)
       IN  /\ cache' = r.cache
           /\ storage' = r.storage
           /\ last' = [NoCall EXCEPT !.op = "put", !.key = key, !.buf = b,
                                     !.size = size, !.keylen = keylen,
                                     !.type = IF chk = ZIPCACHE_OK THEN type ELSE 0,
                                     !.result = r.result]
           /\ expect' = IF chk = ZIPCACHE_OK /\ r.result = ZIPCACHE_OK
                        THEN [expect EXCEPT ![key] = b] ELSE expect
    /\ ops' = ops + 1
    /\ UNCHANGED <<damaged, threadVars, dramVars, moreVars>>

\* zipcache_set_thresholds(cache, tiny_max, medium_max).
SetThresholds(tiny_max, medium_max) ==
    /\ ops < MaxOps
    /\ \E r \in {zipcache_set_thresholds(cache, tiny_max, medium_max)} :
           /\ cache' = r.cache
           /\ last' = [NoCall EXCEPT !.op = "set_thresholds", !.result = r.result,
                                     !.tiny_max = tiny_max, !.medium_max = medium_max]
    /\ ops' = ops + 1
    /\ UNCHANGED <<storage, expect, damaged, threadVars, dramVars, moreVars>>

\* zipcache_init_ex for a second cache; made is what it returns, with the
\* thresholds of the new cache.
InitEx(tiny_max, medium_max) ==
    /\ ops < MaxOps
    /\ \E c \in {zipcache_init_ex(tiny_max, medium_max)} :
           last' = [NoCall EXCEPT
                       !.op = "init_ex",
                       !.tiny_max = tiny_max, !.medium_max = medium_max,
                       !.made = IF c.null THEN NullCache
                                ELSE [null |-> FALSE,
                                      tiny_threshold |-> c.tiny_threshold,
                                      medium_threshold |-> c.medium_threshold]]
    /\ ops' = ops + 1
    /\ UNCHANGED <<cache, storage, expect, damaged, threadVars, dramVars, moreVars>>

\* The thresholds and the arguments of a PUT a caller may hand over.
ThresholdArgs == (0..MaxSize) \cup {ZIPCACHE_LARGE_THRESHOLD}
KeyLens(key) == IF key = 0 THEN {0} ELSE {Len(KeyStr(key)), ZIPCACHE_MAX_KEY_SIZE + 1}
SizeArgs(b) == IF b = 0 THEN {0, 1} ELSE {0, SizeOf(b)}

ArgsNext ==
    \/ \E key \in Keys \cup {0}, b \in Bufs \cup {0} :
          \E keylen \in KeyLens(key), size \in SizeArgs(b) : PutCall(key, keylen, b, size)
    \/ \E k \in Keys : zipcache_get(k)
    \/ \E k \in Keys : zipcache_delete(k)
    \/ \E tiny_max \in ThresholdArgs, medium_max \in ThresholdArgs :
          SetThresholds(tiny_max, medium_max)
    \/ \E tiny_max \in ThresholdArgs, medium_max \in ThresholdArgs :
          InitEx(tiny_max, medium_max)

\* zipcache_evict_cold_pages(cache, target_bytes) called under cache_lock.
EvictColdPages(target_bytes) ==
    /\ ops < MaxOps
    /\ \E r \in {zipcache_evict_cold_pages(cache, target_bytes)} :
           /\ cache' = r.cache
           /\ last' = [NoCall EXCEPT
                  !.op = "evict", !.result = r.result,
                  !.target_bytes = target_bytes, !.evicted_bytes = r.evicted_bytes,
                  !.pages_scanned = r.pages_scanned, !.scan = r.scan,
                  !.before = [access_bits |-> cache.eviction.access_bits,
                               clock_hand |-> cache.eviction.clock_hand,
                               memory_used |-> cache.stats.memory_used]]
    /\ ops' = ops + 1
    /\ UNCHANGED <<storage, expect, damaged, threadVars, dramVars, moreVars>>

\* zipcache_eviction_thread, one turn of its loop that finds eviction needed.
EvictionCycle ==
    /\ ops < MaxOps
    /\ cache.shutdown_flag = 0
    /\ zipcache_needs_eviction(cache)
    /\ \E r \in {zipcache_evict_cold_pages(cache, eviction_target(cache))} :
           /\ cache' = [r.cache EXCEPT !.stats.evictions = @ + 1]
           /\ last' = [NoCall EXCEPT
                  !.op = "cycle", !.result = r.result,
                  !.target_bytes = eviction_target(cache),
                  !.evicted_bytes = r.evicted_bytes,
                  !.pages_scanned = r.pages_scanned, !.scan = r.scan,
                  !.before = [access_bits |-> cache.eviction.access_bits,
                               clock_hand |-> cache.eviction.clock_hand,
                               memory_used |-> cache.stats.memory_used]]
    /\ ops' = ops + 1
    /\ UNCHANGED <<storage, expect, damaged, threadVars, dramVars, moreVars>>

\* The access bit of a page is set.  Nothing in src/zipcache.c sets one;
\* the bits belong to the public zipcache_t and are written by its owner.
TouchPage(page_idx) ==
    /\ ops < MaxOps
    /\ page_idx < cache.eviction.total_pages
    /\ cache.eviction.access_bits[page_idx + 1] = 0
    /\ cache' = [cache EXCEPT !.eviction.access_bits[page_idx + 1] = 1]
    /\ last' = [NoCall EXCEPT !.op = "touch"]
    /\ ops' = ops + 1
    /\ UNCHANGED <<storage, expect, damaged, threadVars, dramVars, moreVars>>

\* The targets handed to zipcache_evict_cold_pages.
TargetArgs == {0, 1, DRAM_PAGE, 2 * DRAM_PAGE, ZIPCACHE_LARGE_THRESHOLD}
PageArgs == 0..((dram_capacity_of(DramCapacityMb) \div DRAM_PAGE))

EvictNext ==
    \/ \E k \in Keys, b \in Bufs : zipcache_put(k, b)
    \/ \E k \in Keys : zipcache_get(k)
    \/ \E k \in Keys : zipcache_delete(k)
    \/ \E target_bytes \in TargetArgs : EvictColdPages(target_bytes)
    \/ EvictionCycle
    \/ \E page_idx \in PageArgs : TouchPage(page_idx)

RouterNext ==
    \/ \E k \in Keys, b \in Bufs : zipcache_put(k, b)
    \/ \E k \in Keys : zipcache_get(k)
    \/ \E k \in Keys : zipcache_delete(k)
    \/ \E p \in 1..MaxOps, i \in 1..MaxSize, v \in ByteVals : CorruptStorage(p, i, v)


(***************************************************************************)
(* Properties of the router.                                               *)
(***************************************************************************)
LastKeyHash == KeyHash[last.key]
IsSmall(type) == type = ZIPCACHE_OBJ_TINY \/ type = ZIPCACHE_OBJ_MEDIUM
SmallPuts == cache.stats.puts_tiny + cache.stats.puts_medium

\* C1: with the file undamaged, a GET of k returns the bytes of the latest
\* successful PUT of k, and NOT_FOUND when the latest operation on k was a
\* DELETE.
C1_GetReturnsLatestPut ==
    (last.op = "get" /\ ~damaged /\ expect[last.key] >= 0) =>
        IF expect[last.key] = 0
        THEN last.result = ZIPCACHE_NOT_FOUND
        ELSE /\ last.result = ZIPCACHE_OK
             /\ last.bytes = BufBytes(expect[last.key])

\* C2: a GET never ends with the TOMBSTONE code nor hands out the tombstone
\* sentinel; a key whose DRAM entry is the tombstone is looked up in the LO
\* tier, so an intact large object behind the tombstone is returned.
C2_TombstoneIsMiss ==
    last.op = "get" =>
        /\ last.result # ZIPCACHE_TOMBSTONE
        /\ last.value # ZIPCACHE_TOMBSTONE_MARKER
        /\ (/\ bplus_tree_get(cache.bt_dram, LastKeyHash) = ZIPCACHE_TOMBSTONE_MARKER
            /\ object_pointer_is_valid(bplus_tree_lo_get(cache.bt_lo, LastKeyHash))
            /\ ~damaged)
           => last.result = ZIPCACHE_OK

C5_ChecksumFailureIsIoError ==
    LET optr == bplus_tree_lo_get(cache.bt_lo, LastKeyHash)
    IN  (/\ last.op = "get"
         /\ object_pointer_is_valid(optr)
         /\ zipcache_read_large_object(storage, optr).result # ZIPCACHE_OK)
        => last.result = ZIPCACHE_IO_ERROR

(***************************************************************************)
(* Several threads calling the router.  zipcache_put, zipcache_get and     *)
(* zipcache_delete run their bodies between pthread_mutex_lock and         *)
(* pthread_mutex_unlock of cache->cache_lock; a body is two steps, one per *)
(* tier it touches.                                                        *)
(***************************************************************************)
CallPut(t, k, b) ==
    /\ pc[t] = "idle"
    /\ ops < MaxCalls
    /\ call' = [call EXCEPT ![t] =
            [NoCall EXCEPT !.op = "put", !.key = k, !.buf = b,
                !.type = zipcache_classify_object(cache, SizeOf(b))]]
    /\ pc' = [pc EXCEPT ![t] = "lock"]
    /\ ops' = ops + 1
    /\ UNCHANGED <<cache, storage, last, expect, damaged, cache_lock, want, ref, dramVars, moreVars>>

CallGet(t, k) ==
    /\ pc[t] = "idle"
    /\ ops < MaxCalls
    /\ call' = [call EXCEPT ![t] = [NoCall EXCEPT !.op = "get", !.key = k]]
    /\ pc' = [pc EXCEPT ![t] = "lock"]
    /\ ops' = ops + 1
    /\ UNCHANGED <<cache, storage, last, expect, damaged, cache_lock, want, ref, dramVars, moreVars>>

CallDelete(t, k) ==
    /\ pc[t] = "idle"
    /\ ops < MaxCalls
    /\ call' = [call EXCEPT ![t] = [NoCall EXCEPT !.op = "delete", !.key = k]]
    /\ pc' = [pc EXCEPT ![t] = "lock"]
    /\ ops' = ops + 1
    /\ UNCHANGED <<cache, storage, last, expect, damaged, cache_lock, want, ref, dramVars, moreVars>>

\* Variant: the mutex lets every caller in.
MutexIgnored(lock) == TRUE

\* pthread_mutex_lock(&cache->cache_lock) returns once the mutex is free.
MutexFree(lock) == lock = 0

LockCache(t) ==
    /\ pc[t] = "lock"
    /\ MutexFree(cache_lock)
    /\ cache_lock' = t
    /\ pc' = [pc EXCEPT ![t] = "step1"]
    /\ UNCHANGED <<routerVars, call, want, ref, dramVars, moreVars>>

\* The call cl run alone on cache c and file st.
RunAlone(c, st, cl) ==
    IF cl.op = "put"
    THEN Only({ [cache |-> r.cache, storage |-> r.storage,
                 call |-> [cl EXCEPT !.result = r.result]]
               : r \in {zipcache_route_put(c, st, cl.key, cl.buf, cl.type)} })
    ELSE IF cl.op = "get"
    THEN LET r == zipcache_coordinated_read(c, st, cl.key)
         IN  [cache |-> r.cache, storage |-> st,
              call |-> [cl EXCEPT !.result = r.result, !.value = r.value,
                                  !.size = r.size, !.bytes = r.bytes]]
    ELSE LET r == zipcache_delete_locked(c, cl.key)
         IN  [cache |-> r.cache, storage |-> st,
              call |-> [cl EXCEPT !.result = r.result]]

\* The first tier the call touches; more = TRUE when a second step follows.
FirstStep(c, st, cl) ==
    IF cl.op = "put" /\ cl.type = ZIPCACHE_OBJ_LARGE
    THEN Only({ [cache |-> r.cache, storage |-> r.storage,
                 call |-> [cl EXCEPT !.result = r.result],
                 more |-> r.result = ZIPCACHE_OK]
               : r \in {route_put_lo(c, st, cl.key, cl.buf)} })
    ELSE IF cl.op = "put"
    THEN Only({ [cache |-> r.cache, storage |-> st,
                 call |-> [cl EXCEPT !.result = r.result],
                 more |-> r.result = ZIPCACHE_OK]
               : r \in {route_put_dram(c, cl.key, cl.buf, cl.type)} })
    ELSE IF cl.op = "get"
    THEN LET r == read_dram(c, cl.key)
         IN  [cache |-> r.out.cache, storage |-> st,
              call |-> [cl EXCEPT !.result = r.out.result, !.value = r.out.value,
                                  !.size = r.out.size, !.bytes = r.out.bytes],
              more |-> ~r.done]
    ELSE LET r == delete_dram(c, cl.key)
         IN  [cache |-> r.cache, storage |-> st,
              call |-> [cl EXCEPT !.result = r.result], more |-> TRUE]

\* The tiers that follow.
SecondStep(c, st, cl) ==
    IF cl.op = "put" /\ cl.type = ZIPCACHE_OBJ_LARGE
    THEN [cache |-> route_put_tombstone(c, cl.key), call |-> cl]
    ELSE IF cl.op = "put"
    THEN [cache |-> zipcache_invalidate_stale(c, cl.key), call |-> cl]
    ELSE IF cl.op = "get"
    THEN LET r == read_lo(c, st, cl.key)
         IN  [cache |-> r.cache,
              call |-> [cl EXCEPT !.result = r.result, !.value = r.value,
                                  !.size = r.size, !.bytes = r.bytes]]
    ELSE LET r == delete_lower(c, cl.key, cl.result)
         IN  [cache |-> r.cache, call |-> [cl EXCEPT !.result = r.result]]

\* The first step is where the call takes effect: the reference run
\* performs the whole call at this point.
Step1(t) ==
    /\ pc[t] = "step1"
    /\ \E r \in {FirstStep(cache, storage, call[t])},
          alone \in {RunAlone(ref.cache, ref.storage, call[t])} :
           /\ cache' = r.cache
           /\ storage' = r.storage
           /\ call' = [call EXCEPT ![t] = r.call]
           /\ pc' = [pc EXCEPT ![t] = IF r.more THEN "step2" ELSE "unlock"]
           /\ ref' = [cache |-> alone.cache, storage |-> alone.storage]
           /\ want' = [want EXCEPT ![t] = alone.call]
           /\ expect' =
                IF call[t].op = "put" /\ alone.call.result = ZIPCACHE_OK
                THEN [expect EXCEPT ![call[t].key] = call[t].buf]
                ELSE IF call[t].op = "delete"
                THEN [expect EXCEPT ![call[t].key] = 0]
                ELSE expect
    /\ UNCHANGED <<last, damaged, ops, cache_lock, dramVars, moreVars>>

Step2(t) ==
    /\ pc[t] = "step2"
    /\ \E r \in {SecondStep(cache, storage, call[t])} :
           /\ cache' = r.cache
           /\ call' = [call EXCEPT ![t] = r.call]
    /\ pc' = [pc EXCEPT ![t] = "unlock"]
    /\ UNCHANGED <<storage, last, expect, damaged, ops, cache_lock, want, ref, dramVars, moreVars>>

\* pthread_mutex_unlock(&cache->cache_lock); the call returns.
UnlockCache(t) ==
    /\ pc[t] = "unlock"
    /\ cache_lock' = 0
    /\ pc' = [pc EXCEPT ![t] = "idle"]
    /\ last' = call[t]
    /\ UNCHANGED <<cache, storage, expect, damaged, ops, call, want, ref, dramVars, moreVars>>

ThreadNext ==
    \/ \E t \in Threads, k \in Keys, b \in Bufs : CallPut(t, k, b)
    \/ \E t \in Threads, k \in Keys : CallGet(t, k)
    \/ \E t \in Threads, k \in Keys : CallDelete(t, k)
    \/ \E t \in Threads : LockCache(t)
    \/ \E t \in Threads : Step1(t)
    \/ \E t \in Threads : Step2(t)
    \/ \E t \in Threads : UnlockCache(t)


\* What the tiers hold for key k: the bytes a reader would be served.
TierContent(c, st, k) ==
    LET dram_result == bplus_tree_get(c.bt_dram, KeyHash[k])
        optr == bplus_tree_lo_get(c.bt_lo, KeyHash[k])
    IN  IF dram_result > 0 /\ dram_result # ZIPCACHE_TOMBSTONE_MARKER
        THEN AddrBytes(dram_result)
        ELSE IF object_pointer_is_valid(optr)
        THEN pread(st, optr.size, optr.lba)
        ELSE <<>>

Quiescent == \A t \in Threads : pc[t] \in {"idle", "lock"}

\* C6: concurrent PUT, GET and DELETE calls are linearizable: every call
\* returns what it returns when the calls run one at a time in the order of
\* their first steps, the cache and the file end up as in that run, and each
\* key holds the bytes of the latest writer in that order.
C6_Linearizable ==
    /\ \A t \in Threads :
          pc[t] = "unlock" =>
              /\ call[t].result = want[t].result
              /\ call[t].bytes = want[t].bytes
              /\ call[t].value = want[t].value
    /\ Quiescent =>
          /\ cache = ref.cache
          /\ storage = ref.storage
          /\ \A k \in Keys :
                /\ expect[k] > 0 => TierContent(cache, storage, k) = BufBytes(expect[k])
                /\ expect[k] = 0 => TierContent(cache, storage, k) = <<>>

\* The descriptor the large-object index holds for key k.
Indexed(k) == bplus_tree_lo_get(cache.bt_lo, KeyHash[k])

\* C24: every descriptor in the large-object index names bytes of the file
\* that lie below the append offset and have the descriptor's checksum, and
\* the descriptors of two keys name disjoint bytes, at every step of
\* concurrent calls.
C24_IndexedObjectsIntact ==
    /\ \A k \in Keys :
           object_pointer_is_valid(Indexed(k)) =>
               /\ Indexed(k).lba + Indexed(k).size <= cache.ssd_offset
               /\ zipcache_checksum(pread(storage, Indexed(k).size, Indexed(k).lba))
                      = Indexed(k).checksum
    /\ \A k1, k2 \in Keys :
           (k1 # k2 /\ object_pointer_is_valid(Indexed(k1))
                    /\ object_pointer_is_valid(Indexed(k2)))
               => \/ Indexed(k1).lba + Indexed(k1).size <= Indexed(k2).lba
                  \/ Indexed(k2).lba + Indexed(k2).size <= Indexed(k1).lba

\* The visits of the scan in last that evicted their page.
EvictingVisits == {i \in 1..Len(last.scan) : last.scan[i].bit = 0}

\* memory_used as the i-th visit of the scan in last found it.
UsedBefore(i) == IF i = 1 THEN last.before.memory_used ELSE last.scan[i - 1].used

\* C31: an eviction scan visits at most 2 * total_pages pages and no page
\* after the target is reached; a page found with its access bit set is
\* not evicted and has the bit cleared; the clock hand stays below
\* total_pages.
C31_EvictionScanBounded ==
    /\ cache.eviction.clock_hand >= 0
    /\ cache.eviction.clock_hand < cache.eviction.total_pages
    /\ last.op \in {"evict", "cycle"} =>
          /\ last.pages_scanned = Len(last.scan)
          /\ Len(last.scan) <= 2 * cache.eviction.total_pages
          /\ last.evicted_bytes = DRAM_PAGE * Cardinality(EvictingVisits)
          /\ Len(last.scan) > 0 =>
                 DRAM_PAGE * Cardinality(EvictingVisits \ {Len(last.scan)})
                     < last.target_bytes
          /\ Len(last.scan) < 2 * cache.eviction.total_pages =>
                 last.evicted_bytes >= last.target_bytes
          /\ \A i \in 1..Len(last.scan) :
                 /\ last.scan[i].page_idx
                        = (last.before.clock_hand + i - 1) % cache.eviction.total_pages
                 /\ last.scan[i].bit
                        = IF i <= cache.eviction.total_pages
                          THEN last.before.access_bits[last.scan[i].page_idx + 1]
                          ELSE 0
                 /\ last.scan[i].bit # 0 =>
                        /\ last.scan[i].used = UsedBefore(i)
                        /\ cache.eviction.access_bits[last.scan[i].page_idx + 1] = 0
          /\ cache.eviction.clock_hand
                 = (last.before.clock_hand + Len(last.scan)) % cache.eviction.total_pages

\* A scan met a page with its access bit set while memory was in use,
\* passed it, evicted colder pages and stopped at its target before the
\* scan limit.
C31_Witness ==
    /\ last.op = "evict"
    /\ last.before.memory_used >= DRAM_PAGE
    /\ \E i \in 1..Len(last.scan) : last.scan[i].bit # 0
    /\ last.evicted_bytes >= last.target_bytes
    /\ last.evicted_bytes = 2 * DRAM_PAGE
    /\ Len(last.scan) < 2 * cache.eviction.total_pages

\* C40: whatever PUTs, GETs, DELETEs and eviction cycles have run,
\* zipcache_validate_consistency finds the cache consistent: memory_used
\* within memory_capacity, the clock hand below total_pages, a valid
\* descriptor of the storage file.
C40_ValidateConsistencyHolds == zipcache_validate_consistency(cache) = 1

\* The put counter of a size class.
PutCounter(c, type) ==
    IF type = ZIPCACHE_OBJ_TINY THEN c.stats.puts_tiny
    ELSE IF type = ZIPCACHE_OBJ_MEDIUM THEN c.stats.puts_medium
    ELSE c.stats.puts_large

\* C34: a successful PUT adds one to the put counter of the class it was
\* routed by and leaves the other two put counters alone, and a successful
\* LARGE PUT adds one to the tombstone counter as well.
C34_PutCountsItsClass ==
    [][(ops' = ops + 1 /\ last'.op = "put" /\ last'.result = ZIPCACHE_OK)
          => /\ \A type \in {ZIPCACHE_OBJ_TINY, ZIPCACHE_OBJ_MEDIUM, ZIPCACHE_OBJ_LARGE} :
                    PutCounter(cache', type)
                        = PutCounter(cache, type) + (IF type = last'.type THEN 1 ELSE 0)
             /\ last'.type = ZIPCACHE_OBJ_LARGE
                    => cache'.stats.tombstones = cache.stats.tombstones + 1]_vars

\* A large PUT has succeeded after a tiny and a medium one.
C34_Witness ==
    /\ last.op = "put" /\ last.result = ZIPCACHE_OK /\ last.type = ZIPCACHE_OBJ_LARGE
    /\ cache.stats.puts_tiny > 0 /\ cache.stats.puts_medium > 0
    /\ cache.stats.puts_large > 0 /\ cache.stats.tombstones > 0

\* The class the thresholds give a size.
ClassOf(size, tiny_max, medium_max) ==
    IF size <= tiny_max THEN ZIPCACHE_OBJ_TINY
    ELSE IF tiny_max < size /\ size <= medium_max THEN ZIPCACHE_OBJ_MEDIUM
    ELSE ZIPCACHE_OBJ_LARGE

Sizes == 0..(MaxSize + 1)

\* C28: a size is TINY up to tiny_threshold, MEDIUM above it up to
\* medium_threshold and LARGE beyond; the class depends on the size and the
\* two thresholds only, never falls when the size grows, and the two
\* thresholds themselves are TINY and MEDIUM, whatever thresholds are in
\* force; an accepted PUT is routed by that class.
C28_ClassifyByThresholds ==
    /\ \A size \in Sizes :
           /\ zipcache_classify_object(cache, size)
                  = ClassOf(size, cache.tiny_threshold, cache.medium_threshold)
           /\ zipcache_classify_object(cache, size)
                  = zipcache_classify_object(
                        zipcache_init_ex(cache.tiny_threshold, cache.medium_threshold), size)
    /\ \A s1 \in Sizes, s2 \in Sizes :
           s1 <= s2 => zipcache_classify_object(cache, s1)
                          <= zipcache_classify_object(cache, s2)
    /\ zipcache_classify_object(cache, cache.tiny_threshold) = ZIPCACHE_OBJ_TINY
    /\ zipcache_classify_object(cache, cache.medium_threshold) = ZIPCACHE_OBJ_MEDIUM
    /\ (last.op = "put" /\ last.result = ZIPCACHE_OK) =>
           last.type = ClassOf(last.size, cache.tiny_threshold, cache.medium_threshold)

\* After the thresholds were changed, a value of exactly tiny_threshold
\* bytes was put and went to the TINY class, and a large object is stored.
C28_Witness ==
    /\ cache.tiny_threshold # TinyMax
    /\ last.op = "put" /\ last.result = ZIPCACHE_OK
    /\ last.size = cache.tiny_threshold /\ last.type = ZIPCACHE_OBJ_TINY
    /\ cache.stats.puts_large > 0

ValidThresholds(tiny_max, medium_max) ==
    0 < tiny_max /\ tiny_max < medium_max /\ medium_max < ZIPCACHE_LARGE_THRESHOLD

BadPutArguments(c) ==
    c.size = 0 \/ c.key = 0 \/ c.buf = 0 \/ c.keylen > ZIPCACHE_MAX_KEY_SIZE

\* C30: a PUT with a zero size, a NULL key or value, or an over-long key
\* returns ERROR or INVALID_SIZE and leaves the trees, the statistics, the
\* storage offset and the object file as they were.
C30_BadPutChangesNothing ==
    [][(ops' = ops + 1 /\ last'.op = "put" /\ BadPutArguments(last'))
          => /\ last'.result \in {ZIPCACHE_ERROR, ZIPCACHE_INVALID_SIZE}
             /\ cache' = cache
             /\ storage' = storage]_vars

\* A PUT with an over-long key has been refused by a cache that holds a
\* large and a small object.
C30_Witness ==
    /\ last.op = "put" /\ last.keylen > ZIPCACHE_MAX_KEY_SIZE
    /\ last.result = ZIPCACHE_INVALID_SIZE
    /\ cache.stats.puts_large > 0
    /\ SmallPuts > 0

\* A large PUT has just written its object while another thread waits with
\* a large PUT of its own, and the index holds an earlier large object of
\* another key.
C24_Witness ==
    \E t1 \in Threads, t2 \in Threads, k \in Keys :
        /\ t1 # t2
        /\ pc[t1] = "step2" /\ call[t1].op = "put" /\ call[t1].type = ZIPCACHE_OBJ_LARGE
        /\ pc[t2] = "lock" /\ call[t2].op = "put" /\ call[t2].type = ZIPCACHE_OBJ_LARGE
        /\ k # call[t1].key
        /\ object_pointer_is_valid(Indexed(k))
        /\ object_pointer_is_valid(Indexed(call[t1].key))

\* Two writers of one key overlap: one waits for the lock while the other,
\* holding it, is between its two steps; an earlier call has returned.
C6_Witness ==
    \E t1 \in Threads, t2 \in Threads :
        /\ t1 # t2
        /\ pc[t1] = "lock" /\ pc[t2] = "step2" /\ cache_lock = t2
        /\ call[t1].op = "put" /\ call[t2].op = "put"
        /\ call[t1].key = call[t2].key
        /\ call[t1].type # call[t2].type
        /\ last.op # "none"

(***************************************************************************)
(* The compressed DRAM tree, src/DRAM-tier/lib/bplustree_compressed.c.     *)
(* d is the bplus_tree_compressed with the leaf_metadata entry of its      *)
(* leaf: d.tree the base tree, d.meta the entry, d.work_queue the flush    *)
(* queue.  LZ4 is taken as a lossless codec: a compressed block is the     *)
(* buffer handed to it, the sub-page's keys followed by its values.        *)
(* d.meta.corrupt stands for compressed blocks that LZ4_decompress_safe    *)
(* rejects; it is FALSE unless the blocks are damaged from outside.        *)
(***************************************************************************)
NoMeta ==
    [leaf |-> FALSE, is_compressed |-> FALSE, original_entries |-> 0,
     compressed_size |-> 0, blocks |-> <<>>, num_sub_pages |-> 0,
     buffer |-> FALSE, entries |-> <<>>, dirty |-> FALSE, corrupt |-> FALSE]

bplus_tree_create_default_leaf_config ==
    [default_sub_pages |-> SubPages, enable_lazy_compression |-> TRUE,
     flush_threshold |-> MAX_BUFFER_ENTRIES - FlushMargin]

\* bplus_tree_compressed_set_config(ct_tree, config): ct_tree->config = *config.
bplus_tree_compressed_set_config(d, config) == [d EXCEPT !.config = config]

bplus_tree_compressed_init_with_config(order, entries, config) ==
    [tree |-> bplus_tree_init(order, entries),
     config |-> config,
     meta |-> NoMeta,
     work_queue |-> [count |-> 0],
     shutdown_flag |-> 0,
     buffer_flush_threshold |-> 0,
     background_flushes |-> 0]

\* find_leaf_metadata_index, then add_leaf_metadata when there is none.
add_leaf_metadata(d) ==
    IF d.meta.leaf THEN d
    ELSE [d EXCEPT !.meta = [NoMeta EXCEPT !.leaf = TRUE,
                                !.num_sub_pages = d.config.default_sub_pages]]

\* a % b of C for ints: the quotient is truncated towards zero, so a nonzero
\* remainder has the sign of a.
CRem(a, b) ==
    LET m == IF b < 0 THEN -b ELSE b
    IN  IF a >= 0 THEN a % m ELSE -((-(a + m)) % m)

hash_key_to_sub_page(key, num_sub_pages) ==
    IF num_sub_pages = 0 THEN 0 ELSE CRem(key, num_sub_pages)

\* compress_leaf_node_with_metadata_ex: one block per sub-page.
compress_leaf_node_with_metadata_ex(d) ==
    IF d.tree.leaf.entries = 0 THEN d
    ELSE Only({
         LET n == m.meta.num_sub_pages
             subcap == m.tree.entries \div n
             Block(sp) ==
                 SubSeq(m.tree.leaf.key, sp * subcap + 1, (sp + 1) * subcap)
                 \o SubSeq(m.tree.leaf.data, sp * subcap + 1, (sp + 1) * subcap)
         IN  IF m.meta.is_compressed \/ n <= 0 THEN m
             ELSE [m EXCEPT
                      !.meta.blocks = [sp \in 1..n |-> Block(sp - 1)],
                      !.meta.compressed_size = n * subcap * 2,
                      !.meta.original_entries = m.tree.leaf.entries,
                      !.meta.is_compressed = TRUE]
         : m \in {add_leaf_metadata(d)} })

\* decompress_leaf_partial_lz4: -1 when LZ4_decompress_safe does not give
\* back the sub-page's bytes.
decompress_leaf_partial_lz4(d) == IF d.meta.corrupt THEN -1 ELSE 0

\* The value decompress_leaf_node_with_metadata_ex returns.
decompress_status(d) ==
    IF ~d.meta.leaf \/ ~d.meta.is_compressed \/ d.meta.compressed_size <= 0
    THEN 0
    ELSE decompress_leaf_partial_lz4(d)

\* decompress_leaf_node_with_metadata_ex: every block is written back over
\* its sub-page's slots and the leaf's entry count is restored.  A block
\* that fails to decompress ends the call with the metadata as it was; the
\* blocks written back before it hold what the slots hold already.
decompress_leaf_node_with_metadata_ex(d) ==
    IF ~d.meta.leaf \/ ~d.meta.is_compressed \/ d.meta.compressed_size <= 0
    THEN d
    ELSE IF decompress_leaf_partial_lz4(d) # 0 THEN d
    ELSE LET n == d.meta.num_sub_pages
             subcap == d.tree.entries \div n
             Restore(arr, half) ==
                 [i \in 1..Len(arr) |->
                     IF i <= n * subcap
                     THEN d.meta.blocks[((i - 1) \div subcap) + 1]
                              [half * subcap + ((i - 1) % subcap) + 1]
                     ELSE arr[i]]
         IN  [d EXCEPT
                 !.tree.leaf.key = Restore(d.tree.leaf.key, 0),
                 !.tree.leaf.data = Restore(d.tree.leaf.data, 1),
                 !.tree.leaf.entries = d.meta.original_entries,
                 !.meta.is_compressed = FALSE]

\* The slot scan of flush_to_hashed_leaf over [j, end_index): the slot that
\* holds key, and the first empty slot seen before it.
RECURSIVE ScanSubPage(_, _, _, _, _)
ScanSubPage(keys, key, j, end_index, empty_slot) ==
    IF j >= end_index THEN [target_idx |-> -1, empty_slot |-> empty_slot]
    ELSE IF keys[j + 1] = key THEN [target_idx |-> j, empty_slot |-> empty_slot]
    ELSE ScanSubPage(keys, key, j + 1, end_index,
                     IF keys[j + 1] = 0 /\ empty_slot = -1 THEN j ELSE empty_slot)

\* One buffered record applied to the leaf's hashed slot range.
apply_buffered(tree, num_sub_pages, rec) ==
    LET sub_page_capacity == tree.entries \div num_sub_pages
        start_index == hash_key_to_sub_page(rec.key, num_sub_pages) * sub_page_capacity
        scan == ScanSubPage(tree.leaf.key, rec.key, start_index,
                            start_index + sub_page_capacity, -1)
    IN  IF scan.target_idx # -1
        THEN [tree EXCEPT !.leaf.data[scan.target_idx + 1] = rec.value]
        ELSE IF scan.empty_slot # -1
        THEN [tree EXCEPT
                 !.leaf.key[scan.empty_slot + 1] = rec.key,
                 !.leaf.data[scan.empty_slot + 1] = rec.value,
                 !.leaf.entries = IF scan.empty_slot >= @
                                  THEN scan.empty_slot + 1 ELSE @]
        ELSE bplus_tree_put(tree, rec.key, rec.value).tree

RECURSIVE FlushLoop(_, _, _, _)
FlushLoop(tree, num_sub_pages, recs, i) ==
    IF i > Len(recs) THEN tree
    ELSE Only({ FlushLoop(next, num_sub_pages, recs, i + 1)
              : next \in {apply_buffered(tree, num_sub_pages, recs[i])} })

\* flush_to_hashed_leaf: decompress, apply the buffer in order, recompress.
flush_to_hashed_leaf(d) ==
    IF d.meta.is_compressed /\ decompress_status(d) # 0 THEN [d |-> d, ret |-> -1]
    ELSE Only({
         IF u.meta.num_sub_pages <= 0 THEN [d |-> u, ret |-> -1]
         ELSE Only({ [d |-> compress_leaf_node_with_metadata_ex(
                                [u EXCEPT !.tree = flushed]),
                      ret |-> 0]
                   : flushed \in {FlushLoop(u.tree, u.meta.num_sub_pages,
                                            u.meta.entries, 1)} })
         : u \in {decompress_leaf_node_with_metadata_ex(d)} })

\* flush_buffer_to_leaf: the buffer is emptied once its records are applied.
flush_buffer_to_leaf(d) ==
    IF ~d.meta.leaf THEN d
    ELSE IF ~d.meta.buffer \/ Len(d.meta.entries) = 0 \/ ~d.meta.dirty THEN d
    ELSE Only({ IF f.ret = 0
                THEN [f.d EXCEPT !.meta.entries = <<>>, !.meta.dirty = FALSE]
                ELSE f.d
              : f \in {flush_to_hashed_leaf(d)} })

bplus_tree_compressed_flush_all_buffers(d) ==
    IF d.meta.leaf THEN flush_buffer_to_leaf(d) ELSE d

\* The index of key in the buffer, 0 when it holds no record for key.
search_buffer(entries, key) ==
    IF \E i \in 1..Len(entries) : entries[i].key = key
    THEN CHOOSE i \in 1..Len(entries) :
            /\ entries[i].key = key
            /\ \A j \in 1..(i - 1) : entries[j].key # key
    ELSE 0

\* add_to_buffer(ct_tree, leaf, key, value, operation).
add_to_buffer(d, key, value, operation) ==
    LET m == [add_leaf_metadata(d) EXCEPT !.meta.buffer = TRUE]
        existing_idx == search_buffer(m.meta.entries, key)
        rec == [key |-> key, value |-> value, operation |-> operation]
        entries == IF existing_idx # 0
                   THEN [m.meta.entries EXCEPT ![existing_idx] = rec]
                   ELSE Append(m.meta.entries, rec)
        needs_flush == Len(entries) >= m.buffer_flush_threshold
    IN  IF Len(m.meta.entries) >= MAX_BUFFER_ENTRIES
        THEN [d |-> m, ret |-> -1]
        ELSE [d |-> [m EXCEPT
                        !.meta.entries = entries,
                        !.meta.dirty = TRUE,
                        !.work_queue.count = @ + (IF needs_flush THEN 1 ELSE 0)],
              ret |-> 0]

\* bplus_tree_compressed_put(ct_tree, key, data), under the write lock.
bplus_tree_compressed_put(d, key, data) ==
    LET a == add_to_buffer(d, key, data, IF data = 0 THEN "D" ELSE "I")
        flushed == flush_buffer_to_leaf(a.d)
        opened == decompress_leaf_node_with_metadata_ex(flushed)
        put == [opened EXCEPT !.tree = bplus_tree_put(opened.tree, key, data).tree]
    IN  IF a.ret = 0
        THEN [d |-> a.d, ret |-> 0, direct |-> FALSE]
        ELSE [d |-> compress_leaf_node_with_metadata_ex(put), ret |-> 0,
              direct |-> TRUE]

\* bplus_tree_compressed_get(ct_tree, key), under the read lock.
bplus_tree_compressed_get(d, key) == bplus_tree_get(d.tree, key)

(***************************************************************************)
(* One caller of the compressed DRAM tree and its background flusher.      *)
(***************************************************************************)
DramKeys == 1..NumDramKeys
DramVals == 1..NumDramVals

NoDramCall ==
    [op |-> "none", key |-> 0, value |-> 0, result |-> 0, direct |-> FALSE,
     buffered |-> <<>>]

DramInit ==
    /\ dram = bplus_tree_compressed_init_with_config(
                  16, LeafEntries, bplus_tree_create_default_leaf_config)
    /\ flusher = "wait"
    /\ app = "running"
    /\ dlast = NoDramCall
    /\ dmodel = [k \in DramKeys |-> -1]
    /\ synced = TRUE
    /\ dops = 0

CompressedPut(k, v) ==
    /\ app = "running"
    /\ dops < MaxDramOps
    /\ LET r == bplus_tree_compressed_put(dram, k, v)
       IN  /\ ~r.d.tree.split
           /\ dram' = r.d
           /\ dlast' = [op |-> "put", key |-> k, value |-> v, result |-> r.ret,
                        direct |-> r.direct, buffered |-> dram.meta.entries]
    /\ dmodel' = [dmodel EXCEPT ![k] = v]
    /\ synced' = FALSE
    /\ dops' = dops + 1
    /\ UNCHANGED <<flusher, app, routerVars, threadVars, moreVars>>

\* bplus_tree_compressed_delete(ct_tree, key) is put(key, 0).
CompressedDelete(k) ==
    /\ app = "running"
    /\ dops < MaxDramOps
    /\ LET r == bplus_tree_compressed_put(dram, k, 0)
       IN  /\ ~r.d.tree.split
           /\ dram' = r.d
           /\ dlast' = [op |-> "delete", key |-> k, value |-> 0, result |-> r.ret,
                        direct |-> r.direct, buffered |-> dram.meta.entries]
    /\ dmodel' = [dmodel EXCEPT ![k] = 0]
    /\ synced' = FALSE
    /\ dops' = dops + 1
    /\ UNCHANGED <<flusher, app, routerVars, threadVars, moreVars>>

CompressedGet(k) ==
    /\ app = "running"
    /\ dops < MaxDramOps
    /\ dlast' = [NoDramCall EXCEPT !.op = "get", !.key = k,
                     !.result = bplus_tree_compressed_get(dram, k)]
    /\ dops' = dops + 1
    /\ UNCHANGED <<dram, flusher, app, dmodel, synced, routerVars, threadVars, moreVars>>

FlushAllBuffers ==
    /\ app = "running"
    /\ dops < MaxDramOps
    /\ LET f == bplus_tree_compressed_flush_all_buffers(dram)
       IN  /\ ~f.tree.split
           /\ dram' = f
    /\ dlast' = [NoDramCall EXCEPT !.op = "flush_all"]
    /\ synced' = TRUE
    /\ dops' = dops + 1
    /\ UNCHANGED <<flusher, app, dmodel, routerVars, threadVars, moreVars>>

\* background_compression_thread: a work item is taken off the queue.
FlusherDequeue ==
    /\ flusher = "wait"
    /\ dram.shutdown_flag = 0
    /\ dram.work_queue.count > 0
    /\ dram' = [dram EXCEPT !.work_queue.count = @ - 1]
    /\ flusher' = "flush"
    /\ UNCHANGED <<app, dlast, dmodel, synced, dops, routerVars, threadVars, moreVars>>

\* background_compression_thread: the item's leaf is flushed.
FlusherFlush ==
    /\ flusher = "flush"
    /\ \E f \in {flush_buffer_to_leaf(dram)} :
           /\ ~f.tree.split
           /\ dram' = [f EXCEPT !.background_flushes = @ + 1]
    /\ flusher' = "wait"
    /\ dlast' = [NoDramCall EXCEPT !.op = "background"]
    /\ UNCHANGED <<app, dmodel, synced, dops, routerVars, threadVars, moreVars>>

\* background_compression_thread: the shutdown flag ends the loop.
FlusherExit ==
    /\ flusher = "wait"
    /\ dram.shutdown_flag = 1
    /\ flusher' = "exited"
    /\ UNCHANGED <<dram, app, dlast, dmodel, synced, dops, routerVars, threadVars, moreVars>>

\* bplus_tree_compressed_deinit: shutdown_flag = 1.
DeinitShutdown ==
    /\ app = "running"
    /\ dram' = [dram EXCEPT !.shutdown_flag = 1]
    /\ app' = "signal"
    /\ UNCHANGED <<flusher, dlast, dmodel, synced, dops, routerVars, threadVars, moreVars>>

\* bplus_tree_compressed_deinit: pthread_cond_signal under the queue lock.
DeinitSignal ==
    /\ app = "signal"
    /\ app' = "join"
    /\ UNCHANGED <<dram, flusher, dlast, dmodel, synced, dops, routerVars, threadVars, moreVars>>

\* Variant: the join returns at once.
JoinReturnsAtOnce(thread) == TRUE

\* pthread_join returns once the thread has ended.
ThreadEnded(thread) == thread = "exited"

\* bplus_tree_compressed_deinit: pthread_join(background_thread).
DeinitJoin ==
    /\ app = "join"
    /\ ThreadEnded(flusher)
    /\ app' = "flush"
    /\ UNCHANGED <<dram, flusher, dlast, dmodel, synced, dops, routerVars, threadVars, moreVars>>

\* bplus_tree_compressed_deinit: the final flush_all_buffers.
DeinitFlush ==
    /\ app = "flush"
    /\ LET f == bplus_tree_compressed_flush_all_buffers(dram)
       IN  /\ ~f.tree.split
           /\ dram' = f
    /\ app' = "cleanup"
    /\ dlast' = [NoDramCall EXCEPT !.op = "flush_all"]
    /\ synced' = TRUE
    /\ UNCHANGED <<flusher, dmodel, dops, routerVars, threadVars, moreVars>>

\* bplus_tree_compressed_deinit: the work queue and the tree are freed.
DeinitCleanup ==
    /\ app = "cleanup"
    /\ dram' = [dram EXCEPT !.work_queue.count = 0]
    /\ app' = "done"
    /\ UNCHANGED <<flusher, dlast, dmodel, synced, dops, routerVars, threadVars, moreVars>>

\* bplus_tree_compressed_set_config with another flush_threshold.
SetConfig(threshold) ==
    /\ app = "running"
    /\ dops < MaxDramOps
    /\ dram' = bplus_tree_compressed_set_config(
                   dram, [dram.config EXCEPT !.flush_threshold = threshold])
    /\ dlast' = [NoDramCall EXCEPT !.op = "set_config", !.value = threshold]
    /\ dops' = dops + 1
    /\ UNCHANGED <<flusher, app, dmodel, synced, routerVars, threadVars, moreVars>>

\* The compressed blocks of the leaf are damaged, or are whole again.
DamageBlocks(b) ==
    /\ app = "running"
    /\ dram.meta.is_compressed
    /\ dram.meta.corrupt # b
    /\ dram' = [dram EXCEPT !.meta.corrupt = b]
    /\ UNCHANGED <<flusher, app, dlast, dmodel, synced, dops, routerVars, threadVars, moreVars>>

DramNext ==
    \/ \E k \in DramKeys, v \in DramVals : CompressedPut(k, v)
    \/ \E k \in DramKeys : CompressedDelete(k)
    \/ \E k \in DramKeys : CompressedGet(k)
    \/ FlushAllBuffers
    \/ FlusherDequeue
    \/ FlusherFlush
    \/ FlusherExit
    \/ DeinitShutdown
    \/ DeinitSignal
    \/ DeinitJoin
    \/ DeinitFlush
    \/ DeinitCleanup


(***************************************************************************)
(* Properties of the compressed DRAM tree.                                 *)
(***************************************************************************)
\* What get(k) is to return when v is the latest value put: -1 when the
\* key is absent or deleted.
Visible(v) == IF v <= 0 THEN -1 ELSE v

\* C7: get(k) reflects every completed put and delete of k, also while the
\* record is still in the leaf's write buffer.
C7_GetSeesBufferedWrites ==
    dlast.op = "get" => dlast.result = Visible(dmodel[dlast.key])

\* C8: once flush_all_buffers has run after the last put or delete, get(k)
\* returns the latest value put for k, -1 when k was deleted last, and the
\* value a key had before when the later calls did not touch it.
C8_GetAfterFlushAll ==
    (dlast.op = "get" /\ synced) => dlast.result = Visible(dmodel[dlast.key])

\* C9: a put that finds the leaf's buffer full flushes it and inserts
\* directly; afterwards the buffer is empty and the leaf serves the new
\* record and every record that was in the buffer.
C9_FullBufferPutKeepsRecords ==
    (dlast.op \in {"put", "delete"} /\ dlast.direct) =>
        /\ Len(dram.meta.entries) = 0
        /\ bplus_tree_compressed_get(dram, dlast.key) = Visible(dlast.value)
        /\ \A i \in 1..Len(dlast.buffered) :
              dlast.buffered[i].key # dlast.key =>
                  bplus_tree_compressed_get(dram, dlast.buffered[i].key)
                      = Visible(dlast.buffered[i].value)

C25_BufferOneRecordPerKey ==
    /\ Len(dram.meta.entries) <= MAX_BUFFER_ENTRIES
    /\ \A i \in 1..Len(dram.meta.entries), j \in 1..Len(dram.meta.entries) :
           i # j => dram.meta.entries[i].key # dram.meta.entries[j].key
    /\ (dlast.op \in {"put", "delete"} /\ search_buffer(dlast.buffered, dlast.key) # 0) =>
           /\ Len(dram.meta.entries) = Len(dlast.buffered)
           /\ dram.meta.entries[search_buffer(dlast.buffered, dlast.key)]
                  = [key |-> dlast.key, value |-> dlast.value,
                     operation |-> IF dlast.value = 0 THEN "D" ELSE "I"]

\* The calls of the compressed tree together with set_config.
DramConfigNext ==
    \/ DramNext
    \/ \E threshold \in 1..MAX_BUFFER_ENTRIES : SetConfig(threshold)

\* A put or delete that went to the write buffer.
BufferedPutStep ==
    /\ dops' = dops + 1
    /\ dlast'.op \in {"put", "delete"}
    /\ ~dlast'.direct

\* C26: a put that adds to the buffer queues one flush work item when the
\* buffer's new record count has reached config.flush_threshold, and queues
\* none while the count is below it.
C26_FlushQueuedAtThreshold ==
    [][BufferedPutStep =>
          dram'.work_queue.count - dram.work_queue.count
              = IF Len(dram'.meta.entries) >= dram.config.flush_threshold
                THEN 1 ELSE 0]_vars

\* The calls of the compressed tree with blocks that may be damaged.
DramDamageNext ==
    \/ DramNext
    \/ \E b \in BOOLEAN : DamageBlocks(b)

\* The step needs the compressed leaf opened and its blocks do not
\* decompress: a put past a full buffer, or a flush of a dirty buffer.
NeedsDamagedLeaf ==
    /\ dram.meta.is_compressed /\ decompress_status(dram) # 0
    /\ dlast' # dlast
    /\ \/ dlast'.op \in {"put", "delete"} /\ dlast'.direct
       \/ /\ dlast'.op \in {"background", "flush_all"}
          /\ Len(dram.meta.entries) > 0 /\ dram.meta.dirty

\* C27: when the blocks of a compressed leaf fail to decompress, the
\* operation that needed the leaf leaves the leaf and its buffer as they
\* were, the leaf stays marked compressed, and a put reports an error.
C27_FailedDecompressLeavesLeaf ==
    [][NeedsDamagedLeaf =>
          /\ dram'.tree = dram.tree
          /\ dram'.meta = dram.meta
          /\ dlast'.op \in {"put", "delete"} => dlast'.result # 0]_vars

(***************************************************************************)
(* The SSD tier, src/SSD-tier/lib/bplustree.c: sub-pages, the block        *)
(* allocator, the block file, super-leaves and the tree over them.         *)
(* A pointer to a sub-page or a super-leaf is the object itself, with      *)
(* null = TRUE for NULL.  I/O on the block file is taken to succeed.       *)
(***************************************************************************)
\* a * b mod 2^16 for 16-bit a and b.
MulMod16(a, b) ==
    ((a * (b % 256)) + (((a * (b \div 256)) % 256) * 256)) % 65536

\* (uint32_t)key as two 16-bit halves <<hi, lo>>.
IntToU32(key) ==
    IF key >= 0 THEN <<key \div 65536, key % 65536>>
    ELSE LET u == (key + 2147483647) + 1              \* key + 2^31
         IN  <<(u \div 65536) + 32768, u % 65536>>

\* hash_key_to_sub_page of the SSD tree.  2654435761 is 40503 * 2^16 + 31153.
hash_key_to_sub_page_ssd(key, num_sub_pages) ==
    IF num_sub_pages <= 0 THEN 0
    ELSE LET w == IntToU32(key)
             low == w[2] * 31153
             hi == (MulMod16(w[2], 40503) + MulMod16(w[1], 31153)
                       + (low \div 65536)) % 65536
             lo16 == Xor(low % 65536, hi)               \* hash ^= hash >> 16
             hi8 == Xor(hi, hi \div 256)                 \* hash ^= hash >> 8
             lo8 == Xor(lo16, ((hi % 256) * 256) + (lo16 \div 256))
         IN  (((hi8 % num_sub_pages) * (65536 % num_sub_pages))
                 + (lo8 % num_sub_pages)) % num_sub_pages

INVALID_BLOCK_ID == -1      \* 0xFFFFFFFF read as a signed word

NullSubPage ==
    [null |-> TRUE, entries |-> 0, next_sub_page |-> 0,
     keys |-> ZeroArray(ENTRIES_PER_SUB_PAGE), data |-> ZeroArray(ENTRIES_PER_SUB_PAGE)]

sub_page_create ==
    [null |-> FALSE, entries |-> 0, next_sub_page |-> -1,
     keys |-> ZeroArray(ENTRIES_PER_SUB_PAGE), data |-> ZeroArray(ENTRIES_PER_SUB_PAGE)]

sub_page_is_full(sub_page) ==
    ~sub_page.null /\ sub_page.entries >= ENTRIES_PER_SUB_PAGE

\* memmove(&arr[pos + 1], &arr[pos], (entries - pos) * size); arr[pos] = x.
ShiftIn(arr, entries, pos, x) ==
    [i \in 1..Len(arr) |->
        IF i - 1 < pos THEN arr[i]
        ELSE IF i - 1 = pos THEN x
        ELSE IF i - 1 <= entries THEN arr[i - 1]
        ELSE arr[i]]

\* memmove(&arr[pos], &arr[pos + 1], (entries - pos - 1) * size).
ShiftOut(arr, entries, pos) ==
    [i \in 1..Len(arr) |->
        IF i - 1 >= pos /\ i - 1 < entries - 1 THEN arr[i + 1] ELSE arr[i]]

sub_page_insert(sub_page, key, data) ==
    IF sub_page.null \/ sub_page_is_full(sub_page)
    THEN [page |-> sub_page, ret |-> -1]
    ELSE LET pos == key_binary_search(sub_page.keys, sub_page.entries, key)
             at == (-pos) - 1
         IN  IF pos >= 0
             THEN [page |-> [sub_page EXCEPT !.data[pos + 1] = data], ret |-> 0]
             ELSE [page |-> [sub_page EXCEPT
                        !.keys = ShiftIn(sub_page.keys, sub_page.entries, at, key),
                        !.data = ShiftIn(sub_page.data, sub_page.entries, at, data),
                        !.entries = @ + 1],
                   ret |-> 0]

sub_page_search(sub_page, key) ==
    IF sub_page.null THEN -1
    ELSE LET pos == key_binary_search(sub_page.keys, sub_page.entries, key)
         IN  IF pos >= 0 THEN sub_page.data[pos + 1] ELSE -1

sub_page_delete(sub_page, key) ==
    IF sub_page.null THEN [page |-> sub_page, ret |-> -1]
    ELSE LET pos == key_binary_search(sub_page.keys, sub_page.entries, key)
         IN  IF pos < 0
             THEN [page |-> sub_page, ret |-> -1]
             ELSE [page |-> [sub_page EXCEPT
                        !.keys = ShiftOut(sub_page.keys, sub_page.entries, pos),
                        !.data = ShiftOut(sub_page.data, sub_page.entries, pos),
                        !.entries = @ - 1],
                   ret |-> 0]

sub_page_prepare_for_compression(sub_page) ==
    IF sub_page.null THEN sub_page
    ELSE [sub_page EXCEPT
            !.keys = [i \in 1..Len(@) |-> IF i > sub_page.entries THEN 0 ELSE @[i]],
            !.data = [i \in 1..Len(@) |-> IF i > sub_page.entries THEN 0 ELSE @[i]]]

\* The block allocator: bitmap[b + 1] is the bit of block b.
block_allocator_init(total_blocks) ==
    [total_blocks |-> total_blocks, allocated_blocks |-> 0, next_search_hint |-> 0,
     bitmap |-> [b \in 1..total_blocks |-> FALSE]]

RECURSIVE AllocateScan(_, _)
AllocateScan(allocator, i) ==
    IF i >= allocator.total_blocks THEN INVALID_BLOCK_ID
    ELSE LET block_id == (allocator.next_search_hint + i) % allocator.total_blocks
         IN  IF ~allocator.bitmap[block_id + 1] THEN block_id
             ELSE AllocateScan(allocator, i + 1)

allocate_block(allocator) ==
    Only({ IF block_id = INVALID_BLOCK_ID
           THEN [allocator |-> allocator, block_id |-> INVALID_BLOCK_ID]
           ELSE [allocator |-> [allocator EXCEPT
                    !.bitmap[block_id + 1] = TRUE,
                    !.allocated_blocks = @ + 1,
                    !.next_search_hint = (block_id + 1) % allocator.total_blocks],
                 block_id |-> block_id]
         : block_id \in {IF allocator.allocated_blocks >= allocator.total_blocks
                         THEN INVALID_BLOCK_ID ELSE AllocateScan(allocator, 0)} })

\* uint32_t values are written as TLC's 32-bit integers: a negative number n
\* stands for 2^32 + n, as INVALID_BLOCK_ID does.  a > b on uint32_t:
U32Greater(a, b) ==
    IF a < 0 THEN b >= 0 \/ a > b ELSE b >= 0 /\ a > b

\* free_block with the test of the bit left out.
free_block_unchecked(allocator, block_id) ==
    IF block_id < 0 \/ block_id >= allocator.total_blocks THEN allocator
    ELSE [allocator EXCEPT !.bitmap[block_id + 1] = FALSE,
                           !.allocated_blocks = @ - 1]

free_block(allocator, block_id) ==
    IF block_id < 0 \/ block_id >= allocator.total_blocks THEN allocator
    ELSE IF allocator.bitmap[block_id + 1]
    THEN [allocator EXCEPT !.bitmap[block_id + 1] = FALSE,
                           !.allocated_blocks = @ - 1]
    ELSE allocator

\* free_multiple_blocks(allocator, count, block_ids) from index i on.
RECURSIVE free_multiple_blocks(_, _, _, _)
free_multiple_blocks(allocator, count, block_ids, i) ==
    IF i >= count THEN allocator
    ELSE free_multiple_blocks(free_block(allocator, block_ids[i + 1]), count,
                              block_ids, i + 1)

\* The loop of allocate_multiple_blocks; a failed allocate_block frees the
\* blocks of this attempt.
RECURSIVE AllocateLoop(_, _, _, _)
AllocateLoop(allocator, count, i, block_ids) ==
    IF i = count THEN [allocator |-> allocator, ret |-> 0, block_ids |-> block_ids]
    ELSE Only({ IF a.block_id = INVALID_BLOCK_ID
                THEN [allocator |-> free_multiple_blocks(a.allocator, i, block_ids, 0),
                      ret |-> -1, block_ids |-> Append(block_ids, a.block_id)]
                ELSE AllocateLoop(a.allocator, count, i + 1,
                                  Append(block_ids, a.block_id))
              : a \in {allocate_block(allocator)} })

\* The loop of allocate_multiple_blocks without the rollback.
RECURSIVE AllocateLoopKeeping(_, _, _, _)
AllocateLoopKeeping(allocator, count, i, block_ids) ==
    IF i = count THEN [allocator |-> allocator, ret |-> 0, block_ids |-> block_ids]
    ELSE Only({ IF a.block_id = INVALID_BLOCK_ID
                THEN [allocator |-> a.allocator,
                      ret |-> -1, block_ids |-> Append(block_ids, a.block_id)]
                ELSE AllocateLoopKeeping(a.allocator, count, i + 1,
                                         Append(block_ids, a.block_id))
              : a \in {allocate_block(allocator)} })

allocate_multiple_keeping(allocator, count) ==
    IF count = 0 \/ U32Greater(allocator.allocated_blocks + count, allocator.total_blocks)
    THEN [allocator |-> allocator, ret |-> -1, block_ids |-> <<>>]
    ELSE AllocateLoopKeeping(allocator, count, 0, <<>>)

\* allocate_multiple_blocks(allocator, count, block_ids)
allocate_multiple_blocks(allocator, count) ==
    IF count = 0 \/ U32Greater(allocator.allocated_blocks + count, allocator.total_blocks)
    THEN [allocator |-> allocator, ret |-> -1, block_ids |-> <<>>]
    ELSE AllocateLoop(allocator, count, 0, <<>>)

\* The block file after ftruncate: every block reads as zeros.
ZeroBlock ==
    [null |-> FALSE, entries |-> 0, next_sub_page |-> 0,
     keys |-> ZeroArray(ENTRIES_PER_SUB_PAGE), data |-> ZeroArray(ENTRIES_PER_SUB_PAGE)]

disk_manager_init ==
    [total_4kb_blocks |-> TotalBlocks,
     allocator |-> block_allocator_init(TotalBlocks),
     file |-> [b \in 1..TotalBlocks |-> ZeroBlock]]

\* The sub-page is zero-padded in place, then written.
disk_write_sub_page(dm, block_id, sub_page) ==
    IF sub_page.null \/ block_id < 0 \/ block_id >= dm.total_4kb_blocks
    THEN [dm |-> dm, page |-> sub_page, ret |-> -1]
    ELSE LET padded == sub_page_prepare_for_compression(sub_page)
         IN  [dm |-> [dm EXCEPT !.file[block_id + 1] = padded],
              page |-> padded, ret |-> 0]

disk_read_sub_page(dm, block_id) ==
    IF block_id < 0 \/ block_id >= dm.total_4kb_blocks THEN NullSubPage
    ELSE dm.file[block_id + 1]

\* Super-leaves.  Index i of the C arrays is position i + 1 here.
NullSuperLeaf ==
    [null |-> TRUE, total_entries |-> 0, active_sub_pages |-> 0,
     sub_page_blocks |-> [i \in 1..SUB_PAGES_PER_SUPER_LEAF |-> INVALID_BLOCK_ID],
     cached_sub_pages |-> [i \in 1..SUB_PAGES_PER_SUPER_LEAF |-> NullSubPage],
     dirty_flags |-> [i \in 1..SUB_PAGES_PER_SUPER_LEAF |-> 0]]

super_leaf_create == [NullSuperLeaf EXCEPT !.null = FALSE]

\* The common part of the two loaders; bump tells how active_sub_pages is
\* advanced when a block is allocated.  page is what the loader returns.
LoadSubPage(dm, super_leaf, sub_page_idx, by_hash) ==
    IF ~super_leaf.cached_sub_pages[sub_page_idx + 1].null
    THEN [dm |-> dm, leaf |-> super_leaf,
          page |-> super_leaf.cached_sub_pages[sub_page_idx + 1]]
    ELSE IF super_leaf.sub_page_blocks[sub_page_idx + 1] = INVALID_BLOCK_ID
    THEN Only({ IF a.block_id = INVALID_BLOCK_ID
                THEN [dm |-> dm, leaf |-> super_leaf, page |-> NullSubPage]
                ELSE [dm |-> [dm EXCEPT !.allocator = a.allocator],
                      leaf |-> [super_leaf EXCEPT
                          !.sub_page_blocks[sub_page_idx + 1] = a.block_id,
                          !.cached_sub_pages[sub_page_idx + 1] = sub_page_create,
                          !.dirty_flags[sub_page_idx + 1] = 1,
                          !.active_sub_pages =
                              IF by_hash
                              THEN (IF sub_page_idx >= @ THEN sub_page_idx + 1 ELSE @)
                              ELSE @ + 1],
                      page |-> sub_page_create]
              : a \in {allocate_block(dm.allocator)} })
    ELSE Only({ [dm |-> dm,
                 leaf |-> [super_leaf EXCEPT !.cached_sub_pages[sub_page_idx + 1] = read],
                 page |-> read]
              : read \in {disk_read_sub_page(dm, super_leaf.sub_page_blocks[sub_page_idx + 1])} })

super_leaf_load_sub_page_by_hash(dm, super_leaf, key) ==
    LoadSubPage(dm, super_leaf,
                hash_key_to_sub_page_ssd(key, SUB_PAGES_PER_SUPER_LEAF), TRUE)

super_leaf_load_sub_page(dm, super_leaf, sub_page_idx) ==
    IF sub_page_idx < 0 \/ sub_page_idx >= SUB_PAGES_PER_SUPER_LEAF
    THEN [dm |-> dm, leaf |-> super_leaf, page |-> NullSubPage]
    ELSE LoadSubPage(dm, super_leaf, sub_page_idx, FALSE)

\* total_entries >= total_capacity * 0.9
super_leaf_is_full(super_leaf) ==
    super_leaf.total_entries * 10
        >= (SUB_PAGES_PER_SUPER_LEAF * ENTRIES_PER_SUB_PAGE) * 9

super_leaf_insert_hashed(dm, super_leaf, key, data) ==
    Only({ IF l.page.null THEN [dm |-> l.dm, leaf |-> l.leaf, ret |-> -1]
           ELSE IF sub_page_is_full(l.page)
           THEN [dm |-> l.dm, leaf |-> l.leaf,
                 ret |-> IF super_leaf_is_full(l.leaf) THEN -2 ELSE -1]
           ELSE Only({ IF ins.ret # 0 THEN [dm |-> l.dm, leaf |-> l.leaf, ret |-> -1]
                       ELSE [dm |-> l.dm,
                             leaf |-> [l.leaf EXCEPT
                                 !.cached_sub_pages[sub_page_idx + 1] = ins.page,
                                 !.dirty_flags[sub_page_idx + 1] = 1,
                                 !.total_entries = @ + 1],
                             ret |-> 0]
                     : ins \in {sub_page_insert(l.page, key, data)} })
         : l \in {super_leaf_load_sub_page_by_hash(dm, super_leaf, key)},
           sub_page_idx \in {hash_key_to_sub_page_ssd(key, SUB_PAGES_PER_SUPER_LEAF)} })

\* super_leaf_insert: the first sub-page with room, whatever the key.
RECURSIVE LegacyInsertLoop(_, _, _, _, _)
LegacyInsertLoop(dm, super_leaf, key, data, i) ==
    IF i >= SUB_PAGES_PER_SUPER_LEAF
    THEN [dm |-> dm, leaf |-> super_leaf, ret |-> -1]
    ELSE Only({ IF ~l.page.null /\ ~sub_page_is_full(l.page)
                   /\ sub_page_insert(l.page, key, data).ret = 0
                THEN [dm |-> l.dm,
                      leaf |-> [l.leaf EXCEPT
                          !.cached_sub_pages[i + 1] = sub_page_insert(l.page, key, data).page,
                          !.dirty_flags[i + 1] = 1,
                          !.total_entries = @ + 1],
                      ret |-> 0]
                ELSE LegacyInsertLoop(l.dm, l.leaf, key, data, i + 1)
              : l \in {super_leaf_load_sub_page(dm, super_leaf, i)} })

super_leaf_insert(dm, super_leaf, key, data) ==
    LegacyInsertLoop(dm, super_leaf, key, data, 0)

super_leaf_search_hashed(dm, super_leaf, key) ==
    IF super_leaf.sub_page_blocks[
           hash_key_to_sub_page_ssd(key, SUB_PAGES_PER_SUPER_LEAF) + 1] = INVALID_BLOCK_ID
    THEN [leaf |-> super_leaf, result |-> -1]
    ELSE Only({ [leaf |-> l.leaf, result |-> sub_page_search(l.page, key)]
              : l \in {super_leaf_load_sub_page_by_hash(dm, super_leaf, key)} })

super_leaf_delete_hashed(dm, super_leaf, key) ==
    IF super_leaf.sub_page_blocks[
           hash_key_to_sub_page_ssd(key, SUB_PAGES_PER_SUPER_LEAF) + 1] = INVALID_BLOCK_ID
    THEN [leaf |-> super_leaf, ret |-> -1]
    ELSE Only({ IF del.ret = 0
                THEN [leaf |-> [l.leaf EXCEPT
                          !.cached_sub_pages[sub_page_idx + 1] = del.page,
                          !.dirty_flags[sub_page_idx + 1] = 1,
                          !.total_entries = @ - 1],
                      ret |-> 0]
                ELSE [leaf |-> l.leaf, ret |-> -1]
              : l \in {super_leaf_load_sub_page_by_hash(dm, super_leaf, key)},
                del \in {sub_page_delete(
                             super_leaf_load_sub_page_by_hash(dm, super_leaf, key).page,
                             key)},
                sub_page_idx \in {hash_key_to_sub_page_ssd(key, SUB_PAGES_PER_SUPER_LEAF)} })

RECURSIVE FlushDirtyLoop(_, _, _, _)
FlushDirtyLoop(dm, super_leaf, i, flushed) ==
    IF i >= SUB_PAGES_PER_SUPER_LEAF
    THEN [dm |-> dm, leaf |-> super_leaf, flushed |-> flushed]
    ELSE IF super_leaf.dirty_flags[i + 1] # 0 /\ ~super_leaf.cached_sub_pages[i + 1].null
    THEN Only({ IF w.ret = 0
                THEN FlushDirtyLoop(w.dm,
                         [super_leaf EXCEPT !.cached_sub_pages[i + 1] = w.page,
                                            !.dirty_flags[i + 1] = 0],
                         i + 1, flushed + 1)
                ELSE FlushDirtyLoop(dm, super_leaf, i + 1, flushed)
              : w \in {disk_write_sub_page(dm, super_leaf.sub_page_blocks[i + 1],
                                           super_leaf.cached_sub_pages[i + 1])} })
    ELSE FlushDirtyLoop(dm, super_leaf, i + 1, flushed)

super_leaf_flush_dirty(dm, super_leaf) == FlushDirtyLoop(dm, super_leaf, 0, 0)

\* consolidate_and_sort: the pairs of the sub-pages in index order, then an
\* insertion sort by key.
RECURSIVE CollectPairs(_, _)
CollectPairs(sub_pages, i) ==
    IF i > Len(sub_pages) THEN <<>>
    ELSE (IF sub_pages[i].null THEN <<>>
          ELSE [j \in 1..sub_pages[i].entries |->
                   [key |-> sub_pages[i].keys[j], data |-> sub_pages[i].data[j]]])
         \o CollectPairs(sub_pages, i + 1)

RECURSIVE SortedInsert(_, _, _)
SortedInsert(sorted, j, temp) ==
    IF j >= 1 /\ sorted[j].key > temp.key
    THEN SortedInsert(sorted, j - 1, temp)
    ELSE SubSeq(sorted, 1, j) \o <<temp>> \o SubSeq(sorted, j + 1, Len(sorted))

RECURSIVE InsertionSort(_, _)
InsertionSort(all_pairs, i) ==
    IF i > Len(all_pairs) THEN all_pairs
    ELSE InsertionSort(
             SortedInsert(SubSeq(all_pairs, 1, i - 1), i - 1, all_pairs[i])
                 \o SubSeq(all_pairs, i + 1, Len(all_pairs)),
             i + 1)

consolidate_and_sort(sub_pages) == InsertionSort(CollectPairs(sub_pages, 1), 2)

\* One pair of redistribute_pairs_hashed's loop, into its target leaf.
PlacePair(target_leaf, pair) ==
    Only({ Only({ IF ins.ret = 0
                  THEN [created EXCEPT !.cached_sub_pages[sub_page_idx + 1] = ins.page,
                                       !.total_entries = @ + 1,
                                       !.dirty_flags[sub_page_idx + 1] = 1]
                  ELSE created
                : ins \in {sub_page_insert(created.cached_sub_pages[sub_page_idx + 1],
                                           pair.key, pair.data)} })
         : sub_page_idx \in {hash_key_to_sub_page_ssd(pair.key, SUB_PAGES_PER_SUPER_LEAF)},
           created \in {IF target_leaf.cached_sub_pages[
                               hash_key_to_sub_page_ssd(pair.key, SUB_PAGES_PER_SUPER_LEAF) + 1].null
                        THEN [target_leaf EXCEPT
                                 !.cached_sub_pages[hash_key_to_sub_page_ssd(
                                     pair.key, SUB_PAGES_PER_SUPER_LEAF) + 1] = sub_page_create,
                                 !.dirty_flags[hash_key_to_sub_page_ssd(
                                     pair.key, SUB_PAGES_PER_SUPER_LEAF) + 1] = 1]
                        ELSE target_leaf} })

\* pairs[i].key < *median_key: the pair stays in the left leaf.
StaysLeft(key, median_key) == key < median_key

RECURSIVE RedistributeLoop(_, _, _, _, _)
RedistributeLoop(pairs, i, left_leaf, right_leaf, median_key) ==
    IF i > Len(pairs) THEN [left |-> left_leaf, right |-> right_leaf]
    ELSE IF StaysLeft(pairs[i].key, median_key)
    THEN RedistributeLoop(pairs, i + 1, PlacePair(left_leaf, pairs[i]),
                          right_leaf, median_key)
    ELSE RedistributeLoop(pairs, i + 1, left_leaf,
                          PlacePair(right_leaf, pairs[i]), median_key)

\* The index after the last cached sub-page.
ActiveSubPages(leaf) ==
    LET held == {i \in 1..SUB_PAGES_PER_SUPER_LEAF : ~leaf.cached_sub_pages[i].null}
    IN  IF held = {} THEN 0 ELSE CHOOSE i \in held : \A j \in held : j <= i

ClearedLeaf(leaf) ==
    [leaf EXCEPT
        !.cached_sub_pages = [i \in 1..SUB_PAGES_PER_SUPER_LEAF |-> NullSubPage],
        !.total_entries = 0]

redistribute_pairs_hashed(pairs, left_leaf, right_leaf) ==
    IF Len(pairs) <= 0
    THEN [left |-> left_leaf, right |-> right_leaf, median_key |-> 0, ret |-> -1]
    ELSE Only({ [left |-> [r.left EXCEPT !.active_sub_pages = ActiveSubPages(r.left)],
                 right |-> [r.right EXCEPT !.active_sub_pages = ActiveSubPages(r.right)],
                 median_key |-> pairs[(Len(pairs) \div 2) + 1].key, ret |-> 0]
              : r \in {RedistributeLoop(pairs, 1, ClearedLeaf(left_leaf),
                                        ClearedLeaf(right_leaf),
                                        pairs[(Len(pairs) \div 2) + 1].key)} })

\* split_super_leaf, write phase: a block for each sub-page of the sibling.
RECURSIVE AllocateSiblingBlocks(_, _, _)
AllocateSiblingBlocks(dm, right_sibling, i) ==
    IF i >= SUB_PAGES_PER_SUPER_LEAF
    THEN [dm |-> dm, right |-> right_sibling, ok |-> TRUE]
    ELSE IF right_sibling.cached_sub_pages[i + 1].null
    THEN AllocateSiblingBlocks(dm, right_sibling, i + 1)
    ELSE Only({ IF a.block_id = INVALID_BLOCK_ID
                THEN [dm |-> dm, right |-> right_sibling, ok |-> FALSE]
                ELSE AllocateSiblingBlocks(
                         [dm EXCEPT !.allocator = a.allocator],
                         [right_sibling EXCEPT !.sub_page_blocks[i + 1] = a.block_id],
                         i + 1)
              : a \in {allocate_block(dm.allocator)} })

\* Variant: no block is asked for.
sibling_blocks_unchecked(dm, right_sibling) ==
    [dm |-> dm, right |-> right_sibling, ok |-> TRUE]

\* split_super_leaf, the allocation loop of the write phase.
allocate_sibling_blocks(dm, right_sibling) ==
    AllocateSiblingBlocks(dm, right_sibling, 0)

\* split_super_leaf, read phase: the cached copy of a sub-page, else its block.
ReadBuffers(dm, leaf_to_split) ==
    [i \in 1..SUB_PAGES_PER_SUPER_LEAF |->
        IF leaf_to_split.sub_page_blocks[i] = INVALID_BLOCK_ID THEN NullSubPage
        ELSE IF ~leaf_to_split.cached_sub_pages[i].null
        THEN leaf_to_split.cached_sub_pages[i]
        ELSE disk_read_sub_page(dm, leaf_to_split.sub_page_blocks[i])]

\* split_super_leaf, write phase: the dirty sub-pages of both leaves.
WriteBoth(dm, left, right, median_key) ==
    Only({ Only({ [dm |-> right_writes.dm, leaf |-> left_writes.leaf,
                   promoted |-> [key |-> median_key,
                                 right_sibling |-> right_writes.leaf]]
                : right_writes \in {super_leaf_flush_dirty(left_writes.dm, right)} })
         : left_writes \in {super_leaf_flush_dirty(dm, left)} })

\* split_super_leaf: promoted.right_sibling.null tells that the split failed.
split_super_leaf(dm, leaf_to_split) ==
    IF leaf_to_split.null
    THEN [dm |-> dm, leaf |-> leaf_to_split,
          promoted |-> [key |-> 0, right_sibling |-> NullSuperLeaf]]
    ELSE Only({
        IF (\A i \in 1..SUB_PAGES_PER_SUPER_LEAF : read_buffers[i].null)
               \/ CollectPairs(read_buffers, 1) = <<>>
        THEN [dm |-> dm, leaf |-> leaf_to_split,
              promoted |-> [key |-> 0, right_sibling |-> NullSuperLeaf]]
        ELSE Only({ Only({ IF ~blocks.ok
                           THEN [dm |-> blocks.dm, leaf |-> r.left,
                                 promoted |-> [key |-> 0,
                                               right_sibling |-> NullSuperLeaf]]
                           ELSE WriteBoth(blocks.dm, r.left, blocks.right, r.median_key)
                         : blocks \in {allocate_sibling_blocks(dm, r.right)} })
                  : r \in {redistribute_pairs_hashed(consolidate_and_sort(read_buffers),
                                                     leaf_to_split, super_leaf_create)} })
        : read_buffers \in {ReadBuffers(dm, leaf_to_split)} })

\* The SSD tree: a leaf parent in memory over the super-leaves.
NullNonLeaf ==
    [null |-> TRUE, is_leaf_parent |-> 0, children |-> 0,
     key |-> ZeroArray(BPLUS_MAX_ORDER - 1),
     sub_ptr |-> [i \in 1..BPLUS_MAX_ORDER |-> NullSuperLeaf]]

non_leaf_new == [NullNonLeaf EXCEPT !.null = FALSE]

bplus_tree_ssd_init ==
    [level |-> 0, root |-> NullNonLeaf, disk_mgr |-> disk_manager_init]

\* bplus_tree_search: the leaf is kept because the hashed search caches the
\* sub-page it reads.
ssd_tree_search(tree, key) ==
    IF tree.root.null THEN [tree |-> tree, result |-> -1]
    ELSE IF tree.root.is_leaf_parent = 0 THEN [tree |-> tree, result |-> -1]
    ELSE Only({
        IF super_leaf_idx >= tree.root.children
               \/ tree.root.sub_ptr[super_leaf_idx + 1].null
        THEN [tree |-> tree, result |-> -1]
        ELSE Only({ [tree |-> [tree EXCEPT !.root.sub_ptr[super_leaf_idx + 1] = found.leaf],
                     result |-> found.result]
                  : found \in {super_leaf_search_hashed(tree.disk_mgr,
                                   tree.root.sub_ptr[super_leaf_idx + 1], key)} })
        : super_leaf_idx \in
              {IF key_binary_search(tree.root.key, tree.root.children - 1, key) >= 0
               THEN key_binary_search(tree.root.key, tree.root.children - 1, key) + 1
               ELSE (-key_binary_search(tree.root.key, tree.root.children - 1, key)) - 1} })

RECURSIVE PromotedPos(_, _, _)
PromotedPos(root, key, i) ==
    IF i < root.children - 1 /\ key > root.key[i + 1]
    THEN PromotedPos(root, key, i + 1)
    ELSE i

update_parent_with_promoted_key(tree, promoted) ==
    LET root == tree.root
        insert_pos == PromotedPos(root, promoted.key, 0)
    IN  IF promoted.right_sibling.null \/ root.null \/ root.is_leaf_parent = 0
        THEN [tree |-> tree, ret |-> -1]
        ELSE IF root.children >= BPLUS_MAX_ORDER
        THEN [tree |-> tree, ret |-> -1]
        ELSE [tree |-> [tree EXCEPT
                  !.root.key = [j \in 1..Len(@) |->
                      IF j - 1 < insert_pos THEN @[j]
                      ELSE IF j - 1 = insert_pos THEN promoted.key
                      ELSE IF j - 1 <= root.children - 1 THEN @[j - 1]
                      ELSE @[j]],
                  !.root.sub_ptr = [j \in 1..Len(@) |->
                      IF j - 1 <= insert_pos THEN @[j]
                      ELSE IF j - 1 = insert_pos + 1 THEN promoted.right_sibling
                      ELSE IF j - 1 <= root.children THEN @[j - 1]
                      ELSE @[j]],
                  !.root.children = @ + 1],
              ret |-> 0]

\* bplus_tree_insert takes root->sub_ptr[0].
InsertLeaf(root, key) == 0

\* bplus_tree_insert.
RECURSIVE ssd_tree_insert(_, _, _)
ssd_tree_insert(tree, key, data) ==
    IF tree.root.null
    THEN Only({ IF ins.ret # 0
                THEN [tree |-> [rooted EXCEPT !.disk_mgr = ins.dm], ret |-> -1]
                ELSE [tree |-> [rooted EXCEPT !.disk_mgr = ins.dm,
                                              !.root.sub_ptr[1] = ins.leaf,
                                              !.root.children = 1],
                      ret |-> 0]
              : rooted \in {[tree EXCEPT
                                !.root = [non_leaf_new EXCEPT !.is_leaf_parent = 1],
                                !.level = 1]},
                ins \in {super_leaf_insert_hashed(tree.disk_mgr, super_leaf_create,
                                                  key, data)} })
    ELSE IF tree.root.is_leaf_parent = 0 \/ tree.root.children <= 0
             \/ tree.root.sub_ptr[InsertLeaf(tree.root, key) + 1].null
    THEN [tree |-> tree, ret |-> -1]
    ELSE Only({
        IF ins.ret # -2
        THEN [tree |-> [tree EXCEPT !.disk_mgr = ins.dm, !.root.sub_ptr[at] = ins.leaf],
              ret |-> ins.ret]
        ELSE Only({
            Only({ IF sp.promoted.right_sibling.null THEN [tree |-> halved, ret |-> -1]
                   ELSE Only({ IF up.ret # 0 THEN [tree |-> halved, ret |-> -1]
                               ELSE ssd_tree_insert(up.tree, key, data)
                             : up \in {update_parent_with_promoted_key(halved,
                                                                       sp.promoted)} })
                 : halved \in {[tree EXCEPT !.disk_mgr = sp.dm,
                                            !.root.sub_ptr[at] = sp.leaf]} })
            : sp \in {split_super_leaf(ins.dm, ins.leaf)} })
        : at \in {InsertLeaf(tree.root, key) + 1},
          ins \in {super_leaf_insert_hashed(tree.disk_mgr,
                       tree.root.sub_ptr[InsertLeaf(tree.root, key) + 1], key, data)} })

(***************************************************************************)
(* Calls on the SSD tree.                                                  *)
(***************************************************************************)
SsdKeys == 0..NumSsdKeys

\* The value of a put: the n-th put of a key stores a value of its own.
SsdValue(n, k) == (10 * n) + k

NoSsdCall ==
    [op |-> "none", key |-> 0, data |-> 0, result |-> 0,
     full |-> FALSE, signal |-> 0, split |-> FALSE, exhausted |-> FALSE]

SsdInit ==
    /\ ssd = bplus_tree_ssd_init
    /\ slast = NoSsdCall
    /\ smodel = [k \in SsdKeys |-> [value |-> 0, puts |-> 0]]
    /\ sops = 0

ssdFrame == <<routerVars, threadVars, dramVars, leafVars, loVars, lockVars, allocVars, hashVars, lifeVars>>

\* What the put finds in the leaf it inserts into: is the sub-page of the
\* key full, and what does super_leaf_insert_hashed answer.
PutTarget(tree, key, data) ==
    LET leaf == IF tree.root.null THEN super_leaf_create
                ELSE tree.root.sub_ptr[InsertLeaf(tree.root, key) + 1]
        l == super_leaf_load_sub_page_by_hash(tree.disk_mgr, leaf, key)
    IN  [full |-> sub_page_is_full(l.page),
         signal |-> super_leaf_insert_hashed(tree.disk_mgr, leaf, key, data).ret]

\* bplus_tree_ssd_put(tree, key, data) with data # 0.
SsdPut(k) ==
    /\ sops < MaxSsdOps
    /\ \E r \in {ssd_tree_insert(ssd, k, SsdValue(smodel[k].puts + 1, k))},
          t \in {PutTarget(ssd, k, SsdValue(smodel[k].puts + 1, k))} :
           /\ ssd' = r.tree
           /\ slast' = [NoSsdCall EXCEPT
                  !.op = "put", !.key = k, !.data = SsdValue(smodel[k].puts + 1, k),
                  !.result = r.ret, !.full = t.full, !.signal = t.signal,
                  !.split = r.tree.root.children > ssd.root.children
                                /\ ssd.root.children > 0,
                  !.exhausted = ssd.disk_mgr.allocator.allocated_blocks
                                    >= ssd.disk_mgr.allocator.total_blocks]
           /\ smodel' = [smodel EXCEPT
                  ![k].puts = @ + 1,
                  ![k].value = IF r.ret = 0 THEN SsdValue(smodel[k].puts + 1, k) ELSE @]
    /\ sops' = sops + 1
    /\ UNCHANGED ssdFrame

\* bplus_tree_ssd_put(tree, key, 0): deletion is not implemented.
SsdPutZero(k) ==
    /\ sops < MaxSsdOps
    /\ slast' = [NoSsdCall EXCEPT !.op = "delete", !.key = k, !.result = -1]
    /\ sops' = sops + 1
    /\ UNCHANGED <<ssd, smodel, ssdFrame>>

\* bplus_tree_ssd_get(tree, key).
SsdGet(k) ==
    /\ sops < MaxSsdOps
    /\ \E r \in {ssd_tree_search(ssd, k)} :
           /\ ssd' = r.tree
           /\ slast' = [NoSsdCall EXCEPT !.op = "get", !.key = k, !.result = r.result]
    /\ sops' = sops + 1
    /\ UNCHANGED <<smodel, ssdFrame>>

\* allocate_multiple_blocks(tree->disk_mgr->allocator, count, ids) by
\* another user of the block file.
SsdReserve(count) ==
    /\ sops < MaxSsdOps
    /\ \E r \in {allocate_multiple_blocks(ssd.disk_mgr.allocator, count)} :
           /\ ssd' = [ssd EXCEPT !.disk_mgr.allocator = r.allocator]
           /\ slast' = [NoSsdCall EXCEPT !.op = "reserve", !.result = r.ret]
    /\ sops' = sops + 1
    /\ UNCHANGED <<smodel, ssdFrame>>

SsdNext ==
    \/ \E k \in SsdKeys : SsdPut(k)
    \/ \E k \in SsdKeys : SsdPutZero(k)
    \/ \E k \in SsdKeys : SsdGet(k)

\* C11: when every key was put at most once into the fresh SSD tree, a get
\* of a key whose put returned 0 returns the value that was put.
C11_PutKeysRetrievable ==
    (/\ slast.op = "get"
     /\ \A k \in SsdKeys : smodel[k].puts <= 1
     /\ smodel[slast.key].value # 0)
        => slast.result = smodel[slast.key].value

\* The calls on the SSD tree while its blocks are also handed out elsewhere.
SsdFullNext ==
    \/ SsdNext
    \/ \E count \in (TotalBlocks - SUB_PAGES_PER_SUPER_LEAF)..TotalBlocks :
          SsdReserve(count)

\* C21: a put that has to split a super-leaf while the allocator has no
\* free block returns an error, and the tree gets no new super-leaf.
C21_ExhaustedSplitFailsPut ==
    (slast.op = "put" /\ slast.signal = -2 /\ slast.exhausted) =>
        (slast.result = -1 /\ ~slast.split)

\* What a lookup in the tree's first super-leaf, the one every put inserts
\* into and splits, answers for a key.
LeafLookup(tree, key) ==
    IF tree.root.null \/ tree.root.sub_ptr[1].null THEN -1
    ELSE super_leaf_search_hashed(tree.disk_mgr, tree.root.sub_ptr[1], key).result

\* bplus_tree_insert(tree, key, data) asks split_super_leaf for a split and
\* gets no right sibling back.
SplitFails(tree, key, data) ==
    /\ ~tree.root.null /\ ~tree.root.sub_ptr[1].null
    /\ \E ins \in {super_leaf_insert_hashed(tree.disk_mgr, tree.root.sub_ptr[1],
                                             key, data)} :
           /\ ins.ret = -2
           /\ split_super_leaf(ins.dm, ins.leaf).promoted.right_sibling.null

\* C37: after a put whose super-leaf split failed, the super-leaf answers
\* every key it held before the put with the value it held.
C37_FailedSplitKeepsPairs ==
    [][(/\ sops' = sops + 1 /\ slast'.op = "put"
        /\ SplitFails(ssd, slast'.key, slast'.data))
          => \A k \in SsdKeys :
                 LeafLookup(ssd, k) # -1 => LeafLookup(ssd', k) = LeafLookup(ssd, k)]_vars

\* Such a put was made: the super-leaf asked for a split with every block
\* of the file in use.
C21_Witness ==
    /\ slast.op = "put" /\ slast.signal = -2 /\ slast.exhausted
    /\ slast.result = -1
    /\ ssd.root.children = 1

\* C20: a put whose insertion finds the sub-page of its key full gets the
\* split-required signal (-2) from the super-leaf, and the tree splits the
\* super-leaf before it retries.
C20_FullSubPageSignalsSplit ==
    (slast.op = "put" /\ slast.full) => (slast.signal = -2 /\ slast.split)

(***************************************************************************)
(* Calls on super-leaves held directly, as the super-leaf tests hold them: *)
(* one disk manager, one super-leaf and, after a split, its right sibling. *)
(***************************************************************************)
LeafKeys == 0..NumLeafKeys

\* The value stored with a key, as the tests choose it.
LeafData(k) == (k + 1) * 100

Sides == {"leaf", "right"}

\* before: the pairs of the super-leaf when split_super_leaf was called;
\* sound: each of them was in the sub-page of its hash and counted once.
NoLeafCall ==
    [op |-> "none", side |-> "leaf", key |-> 0, ret |-> 0,
     full |-> FALSE, before |-> {}, sound |-> FALSE]

LeafInit ==
    /\ sl = [dm |-> disk_manager_init, leaf |-> super_leaf_create,
             right |-> NullSuperLeaf]
    /\ sllast = NoLeafCall
    /\ slops = 0

leafFrame == <<routerVars, threadVars, dramVars, ssdVars, loVars, lockVars, allocVars, hashVars, lifeVars>>

Held(side) == IF side = "leaf" THEN sl.leaf ELSE sl.right

WithLeaf(side, dm, leaf) ==
    IF side = "leaf" THEN [sl EXCEPT !.dm = dm, !.leaf = leaf]
    ELSE [sl EXCEPT !.dm = dm, !.right = leaf]

\* Sub-page i of a super-leaf as a load would return it: the cached copy,
\* else the content of its block, else no sub-page.
Materialized(dm, leaf, i) ==
    IF ~leaf.cached_sub_pages[i].null THEN leaf.cached_sub_pages[i]
    ELSE IF leaf.sub_page_blocks[i] = INVALID_BLOCK_ID THEN NullSubPage
    ELSE disk_read_sub_page(dm, leaf.sub_page_blocks[i])

\* The pairs a super-leaf holds.
LeafPairs(dm, leaf) ==
    IF leaf.null THEN {}
    ELSE UNION {
        {[key |-> Materialized(dm, leaf, i).keys[j],
          data |-> Materialized(dm, leaf, i).data[j]]
            : j \in 1..Materialized(dm, leaf, i).entries}
        : i \in 1..SUB_PAGES_PER_SUPER_LEAF }

\* The sum of the entry counts of the sub-pages i .. N of a super-leaf.
RECURSIVE SumEntries(_, _, _)
SumEntries(dm, leaf, i) ==
    IF i > SUB_PAGES_PER_SUPER_LEAF THEN 0
    ELSE Materialized(dm, leaf, i).entries + SumEntries(dm, leaf, i + 1)

\* Every key of the super-leaf is in the sub-page of its hash.
PlacedByHash(dm, leaf) ==
    \A i \in 1..SUB_PAGES_PER_SUPER_LEAF :
        \A j \in 1..Materialized(dm, leaf, i).entries :
            hash_key_to_sub_page_ssd(Materialized(dm, leaf, i).keys[j],
                                     SUB_PAGES_PER_SUPER_LEAF) = i - 1

\* super_leaf_insert_hashed(dm, super_leaf, key, data).
LeafInsertHashed(side, k) ==
    /\ slops < MaxLeafOps
    /\ ~Held(side).null
    /\ \E r \in {super_leaf_insert_hashed(sl.dm, Held(side), k, LeafData(k))},
          l \in {super_leaf_load_sub_page_by_hash(sl.dm, Held(side), k)} :
           /\ sl' = WithLeaf(side, r.dm, r.leaf)
           /\ sllast' = [NoLeafCall EXCEPT
                  !.op = "insert_hashed", !.side = side, !.key = k,
                  !.ret = r.ret, !.full = sub_page_is_full(l.page)]
    /\ slops' = slops + 1
    /\ UNCHANGED leafFrame

\* super_leaf_insert(dm, super_leaf, key, data).
LeafInsert(side, k) ==
    /\ slops < MaxLeafOps
    /\ ~Held(side).null
    /\ \E r \in {super_leaf_insert(sl.dm, Held(side), k, LeafData(k))} :
           /\ sl' = WithLeaf(side, r.dm, r.leaf)
           /\ sllast' = [NoLeafCall EXCEPT
                  !.op = "insert", !.side = side, !.key = k, !.ret = r.ret]
    /\ slops' = slops + 1
    /\ UNCHANGED leafFrame

\* super_leaf_search_hashed(dm, super_leaf, key).
LeafSearchHashed(side, k) ==
    /\ slops < MaxLeafOps
    /\ ~Held(side).null
    /\ \E r \in {super_leaf_search_hashed(sl.dm, Held(side), k)} :
           /\ sl' = WithLeaf(side, sl.dm, r.leaf)
           /\ sllast' = [NoLeafCall EXCEPT
                  !.op = "search_hashed", !.side = side, !.key = k, !.ret = r.result]
    /\ slops' = slops + 1
    /\ UNCHANGED leafFrame

\* super_leaf_delete_hashed(dm, super_leaf, key).
LeafDeleteHashed(side, k) ==
    /\ slops < MaxLeafOps
    /\ ~Held(side).null
    /\ \E r \in {super_leaf_delete_hashed(sl.dm, Held(side), k)} :
           /\ sl' = WithLeaf(side, sl.dm, r.leaf)
           /\ sllast' = [NoLeafCall EXCEPT
                  !.op = "delete_hashed", !.side = side, !.key = k, !.ret = r.ret]
    /\ slops' = slops + 1
    /\ UNCHANGED leafFrame

\* super_leaf_flush_dirty(dm, super_leaf).
LeafFlushDirty(side) ==
    /\ slops < MaxLeafOps
    /\ ~Held(side).null
    /\ \E r \in {super_leaf_flush_dirty(sl.dm, Held(side))} :
           /\ sl' = WithLeaf(side, r.dm, r.leaf)
           /\ sllast' = [NoLeafCall EXCEPT
                  !.op = "flush_dirty", !.side = side, !.ret = r.flushed]
    /\ slops' = slops + 1
    /\ UNCHANGED leafFrame

\* split_super_leaf(dm, super_leaf), once: the sibling it returns is kept.
LeafSplit ==
    /\ slops < MaxLeafOps
    /\ sl.right.null
    /\ \E r \in {split_super_leaf(sl.dm, sl.leaf)} :
           /\ sl' = [dm |-> r.dm, leaf |-> r.leaf, right |-> r.promoted.right_sibling]
           /\ sllast' = [NoLeafCall EXCEPT
                  !.op = "split", !.key = r.promoted.key,
                  !.ret = IF r.promoted.right_sibling.null THEN -1 ELSE 0,
                  !.before = LeafPairs(sl.dm, sl.leaf),
                  !.sound = PlacedByHash(sl.dm, sl.leaf)
                                /\ sl.leaf.total_entries = SumEntries(sl.dm, sl.leaf, 1)]
    /\ slops' = slops + 1
    /\ UNCHANGED leafFrame

LeafNext ==
    \/ \E side \in Sides, k \in LeafKeys : LeafInsertHashed(side, k)
    \/ \E side \in Sides, k \in LeafKeys : LeafInsert(side, k)
    \/ \E side \in Sides, k \in LeafKeys : LeafSearchHashed(side, k)
    \/ \E side \in Sides, k \in LeafKeys : LeafDeleteHashed(side, k)
    \/ \E side \in Sides : LeafFlushDirty(side)
    \/ LeafSplit

\* C12: after a successful split of a super-leaf whose pairs were each in
\* the sub-page of their hash and counted once, the left super-leaf holds
\* exactly the pairs below the promoted key, the right sibling exactly the
\* others, and the two total_entries add up to the number of pairs held
\* before.
C12_SplitPartitions ==
    (sllast.op = "split" /\ sllast.ret = 0 /\ sllast.sound)
        => /\ LeafPairs(sl.dm, sl.leaf) = {p \in sllast.before : p.key < sllast.key}
           /\ LeafPairs(sl.dm, sl.right) = {p \in sllast.before : p.key >= sllast.key}
           /\ sl.leaf.total_entries + sl.right.total_entries
                  = Cardinality(sllast.before)

\* C17: in every state, total_entries of each super-leaf equals the sum of
\* the entry counts of its sub-pages.
C17_TotalEntriesIsSum ==
    \A side \in Sides :
        ~Held(side).null
            => Held(side).total_entries = SumEntries(sl.dm, Held(side), 1)

\* C18: in every state, every key of each super-leaf is in the sub-page whose
\* index is the hash of the key and in no other.
C18_KeysInHashedSubPage ==
    \A side \in Sides : ~Held(side).null => PlacedByHash(sl.dm, Held(side))

\* The sub-page invariant: at most K entries, the keys in use strictly
\* increasing, every slot from entries on zero.
SubPageOk(sub_page) ==
    /\ sub_page.entries <= ENTRIES_PER_SUB_PAGE
    /\ \A j \in 1..(sub_page.entries - 1) : sub_page.keys[j] < sub_page.keys[j + 1]
    /\ \A j \in (sub_page.entries + 1)..ENTRIES_PER_SUB_PAGE :
           sub_page.keys[j] = 0 /\ sub_page.data[j] = 0

\* C19: in every state, every sub-page of each super-leaf satisfies the
\* sub-page invariant.
C19_SubPageInvariant ==
    \A side \in Sides : \A i \in 1..SUB_PAGES_PER_SUPER_LEAF :
        (~Held(side).null /\ ~Materialized(sl.dm, Held(side), i).null)
            => SubPageOk(Materialized(sl.dm, Held(side), i))

(***************************************************************************)
(* The large-object B+tree with its splits, src/LO-tier/lib/bplustree_lo.c.*)
(* A node pointer is the position of the node in tree.nodes, 0 for NULL.   *)
(* A node keeps the part of its arrays that is in use: entries is          *)
(* Len(key) in a leaf, children is Len(sub_ptr) in a non-leaf.             *)
(***************************************************************************)
leaf_new == [leaf |-> TRUE, parent |-> 0, key |-> <<>>, data |-> <<>>, sub_ptr |-> <<>>]

lo_non_leaf_new ==
    [leaf |-> FALSE, parent |-> 0, key |-> <<>>, data |-> <<>>, sub_ptr |-> <<>>]

\* bplus_tree_lo_init(order), with its initial leaf as the root.  aborted is
\* set when an assert of the library fails, which ends the process.
lo_tree_init(order) ==
    [order |-> order, entries |-> 0, level |-> 1, root |-> 1, nodes |-> <<leaf_new>>,
     aborted |-> FALSE]

\* The child a non-leaf node routes a key to.
ChildFor(nln, key) ==
    Only({ IF i >= 0 THEN nln.sub_ptr[i + 2] ELSE nln.sub_ptr[-i]
         : i \in {key_binary_search(nln.key, Len(nln.sub_ptr) - 1, key)} })

RECURSIVE leaf_locate(_, _, _)
leaf_locate(tree, node, key) ==
    IF node = 0 THEN 0
    ELSE IF tree.nodes[node].leaf THEN node
    ELSE leaf_locate(tree, ChildFor(tree.nodes[node], key), key)

\* bplus_tree_lo_get
lo_tree_get(tree, key) ==
    Only({ IF ln = 0 THEN NullObj
           ELSE Only({ IF i >= 0 THEN tree.nodes[ln].data[i + 1] ELSE NullObj
                     : i \in {key_binary_search(tree.nodes[ln].key,
                                                Len(tree.nodes[ln].key), key)} })
         : ln \in {leaf_locate(tree, tree.root, key)} })

\* bplus_tree_lo_delete -> leaf_remove
lo_tree_delete(tree, key) ==
    Only({ IF ln = 0 THEN [tree |-> tree, ret |-> -1]
           ELSE Only({ IF pos < 0 THEN [tree |-> tree, ret |-> -1]
                       ELSE [tree |-> [tree EXCEPT
                                 !.nodes[ln].key = RemoveAt(@, pos + 1),
                                 !.nodes[ln].data = RemoveAt(@, pos + 1),
                                 !.entries = @ - 1],
                             ret |-> 0]
                     : pos \in {key_binary_search(tree.nodes[ln].key,
                                                  Len(tree.nodes[ln].key), key)} })
         : ln \in {leaf_locate(tree, tree.root, key)} })

\* non_leaf_simple_insert: the key at insert, r_ch right of it.  sub_ptr[insert]
\* is left as it is.
non_leaf_simple_insert(tree, node, l_ch, r_ch, key, insert) ==
    [tree EXCEPT
        !.nodes[node].key = InsertAt(@, insert + 1, key),
        !.nodes[node].sub_ptr = InsertAt(@, insert + 2, r_ch),
        !.nodes[r_ch].parent = node,
        !.nodes[l_ch].parent = node]

\* The children of a node get the node as their parent.
Adopt(tree, node) ==
    [tree EXCEPT !.nodes = [n \in 1..Len(@) |->
        IF \E i \in 1..Len(tree.nodes[node].sub_ptr) : tree.nodes[node].sub_ptr[i] = n
        THEN [@[n] EXCEPT !.parent = node] ELSE @[n]]]

\* non_leaf_insert on a full node, insert < split: the right half moves to
\* the sibling, the key goes into the node.
non_leaf_split_left(tree, node, sibling, l_ch, r_ch, key, insert, split) ==
    non_leaf_simple_insert(
        [Adopt([tree EXCEPT
                   !.nodes = Append(@, [lo_non_leaf_new EXCEPT
                       !.key = SubSeq(tree.nodes[node].key, split + 1,
                                      Len(tree.nodes[node].key)),
                       !.sub_ptr = SubSeq(tree.nodes[node].sub_ptr, split + 1,
                                          Len(tree.nodes[node].sub_ptr))])],
               sibling)
            EXCEPT !.nodes[node].key = SubSeq(@, 1, split - 1),
                   !.nodes[node].sub_ptr = SubSeq(@, 1, split)],
        node, l_ch, r_ch, key, insert)

\* non_leaf_insert on a full node, insert >= split: what follows key[split]
\* moves to the sibling; the key goes into the sibling when
\* new_insert = insert - split - 1 is not negative.
non_leaf_split_right(tree, node, sibling, l_ch, r_ch, key, insert, split) ==
    Only({ Only({ [Adopt([tree EXCEPT
                             !.nodes = Append(@, [lo_non_leaf_new EXCEPT
                                 !.key = IF new_insert >= 0
                                         THEN InsertAt(moved_key, new_insert + 1, key)
                                         ELSE moved_key,
                                 !.sub_ptr = IF new_insert >= 0
                                             THEN InsertAt(moved_ptr, new_insert + 2, r_ch)
                                             ELSE moved_ptr]),
                             !.nodes[r_ch].parent =
                                 IF new_insert >= 0 THEN sibling ELSE @,
                             !.nodes[l_ch].parent =
                                 IF new_insert >= 0 THEN sibling ELSE @],
                         sibling)
                     EXCEPT !.nodes[node].key = SubSeq(@, 1, split),
                            !.nodes[node].sub_ptr = SubSeq(@, 1, split + 1)]
                : moved_key \in {SubSeq(tree.nodes[node].key, split + 2,
                                        Len(tree.nodes[node].key))},
                  moved_ptr \in {SubSeq(tree.nodes[node].sub_ptr, split + 2,
                                        Len(tree.nodes[node].sub_ptr))} })
         : new_insert \in {insert - split - 1} })

RECURSIVE parent_node_build(_, _, _, _)
RECURSIVE non_leaf_insert(_, _, _, _, _)

\* non_leaf_insert(tree, node, l_ch, r_ch, key, level); assert(insert < 0)
\* fails when the node already holds the key.
non_leaf_insert(tree, node, l_ch, r_ch, key) ==
    Only({ IF insert < 0
           THEN [tree EXCEPT !.aborted = TRUE]
           ELSE IF Len(tree.nodes[node].sub_ptr) = tree.order
           THEN Only({ IF insert < split
                       THEN parent_node_build(
                                non_leaf_split_left(tree, node, sibling, l_ch, r_ch,
                                                    key, insert, split),
                                node, sibling, tree.nodes[node].key[split])
                       ELSE parent_node_build(
                                non_leaf_split_right(tree, node, sibling, l_ch, r_ch,
                                                     key, insert, split),
                                node, sibling, tree.nodes[node].key[split + 1])
                     : split \in {Len(tree.nodes[node].sub_ptr) \div 2},
                       sibling \in {Len(tree.nodes) + 1} })
           ELSE non_leaf_simple_insert(tree, node, l_ch, r_ch, key, insert)
         : insert \in {(-key_binary_search(tree.nodes[node].key,
                                           Len(tree.nodes[node].sub_ptr) - 1, key)) - 1} })

\* parent_node_build(tree, left, right, key, level)
parent_node_build(tree, left, right, key) ==
    IF tree.nodes[left].parent = 0 /\ tree.nodes[right].parent = 0
    THEN [tree EXCEPT
             !.nodes = Append([@ EXCEPT ![left].parent = Len(tree.nodes) + 1,
                                        ![right].parent = Len(tree.nodes) + 1],
                              [lo_non_leaf_new EXCEPT !.key = <<key>>,
                                                      !.sub_ptr = <<left, right>>]),
             !.root = Len(tree.nodes) + 1,
             !.level = @ + 1]
    ELSE IF tree.nodes[right].parent = 0
    THEN non_leaf_insert([tree EXCEPT !.nodes[right].parent = tree.nodes[left].parent],
                         tree.nodes[left].parent, left, right, key)
    ELSE non_leaf_insert([tree EXCEPT !.nodes[left].parent = tree.nodes[right].parent],
                         tree.nodes[right].parent, left, right, key)

\* leaf_split_left: the new sibling takes the lower keys and the new key.
leaf_split_left(tree, leaf, left, key, obj_ptr, insert, split) ==
    [tree EXCEPT
        !.nodes = Append([@ EXCEPT
                             ![leaf].key = SubSeq(@, split, Len(@)),
                             ![leaf].data = SubSeq(@, split, Len(@))],
                         [leaf_new EXCEPT
                             !.key = InsertAt(SubSeq(tree.nodes[leaf].key, 1, split - 1),
                                              insert + 1, key),
                             !.data = InsertAt(SubSeq(tree.nodes[leaf].data, 1, split - 1),
                                               insert + 1, obj_ptr)]),
        !.entries = @ + 1]

\* leaf_split_right: the new sibling takes the upper keys and the new key.
leaf_split_right(tree, leaf, right, key, obj_ptr, insert, split) ==
    [tree EXCEPT
        !.nodes = Append([@ EXCEPT
                             ![leaf].key = SubSeq(@, 1, split),
                             ![leaf].data = SubSeq(@, 1, split)],
                         [leaf_new EXCEPT
                             !.key = InsertAt(SubSeq(tree.nodes[leaf].key, split + 1,
                                                     Len(tree.nodes[leaf].key)),
                                              (insert - split) + 1, key),
                             !.data = InsertAt(SubSeq(tree.nodes[leaf].data, split + 1,
                                                      Len(tree.nodes[leaf].data)),
                                               (insert - split) + 1, obj_ptr)]),
        !.entries = @ + 1]

\* leaf_insert(tree, leaf, key, obj_ptr)
leaf_insert(tree, leaf, key, obj_ptr) ==
    Only({ IF found >= 0
           THEN [tree EXCEPT !.nodes[leaf].data[found + 1] = obj_ptr]
           ELSE IF Len(tree.nodes[leaf].key) = LoEntries
           THEN Only({ IF insert < split
                       THEN Only({ parent_node_build(halved, sibling, leaf,
                                                     halved.nodes[leaf].key[1])
                                 : halved \in {leaf_split_left(tree, leaf, sibling, key,
                                                               obj_ptr, insert, split)} })
                       ELSE Only({ parent_node_build(halved, leaf, sibling,
                                                     halved.nodes[sibling].key[1])
                                 : halved \in {leaf_split_right(tree, leaf, sibling, key,
                                                                obj_ptr, insert, split)} })
                     : insert \in {(-found) - 1},
                       split \in {(LoEntries + 1) \div 2},
                       sibling \in {Len(tree.nodes) + 1} })
           ELSE [tree EXCEPT
                    !.nodes[leaf].key = InsertAt(@, -found, key),
                    !.nodes[leaf].data = InsertAt(@, -found, obj_ptr),
                    !.entries = @ + 1]
         : found \in {key_binary_search(tree.nodes[leaf].key,
                                        Len(tree.nodes[leaf].key), key)} })

\* bplus_tree_lo_put; the root is never NULL after init.
lo_tree_put(tree, key, obj_ptr) ==
    IF ~object_pointer_is_valid(obj_ptr) THEN [tree |-> tree, ret |-> -1]
    ELSE [tree |-> leaf_insert(tree, leaf_locate(tree, tree.root, key), key, obj_ptr),
          ret |-> 0]

(***************************************************************************)
(* Calls on the large-object tree.                                         *)
(***************************************************************************)
LoKeys == 1..NumLoKeys

\* The descriptor of the n-th put of a key.
LoDescriptor(n, k) == [lba |-> (10 * n) + k, size |-> k, checksum |-> 0]

NoLoCall == [op |-> "none", key |-> 0, ret |-> 0, result |-> NullObj]

LoInit ==
    /\ lo = lo_tree_init(LoOrder)
    /\ lolast = NoLoCall
    /\ lomodel = [k \in LoKeys |-> [optr |-> NullObj, puts |-> 0]]
    /\ loops = 0

loFrame == <<routerVars, threadVars, dramVars, ssdVars, leafVars, lockVars, allocVars, hashVars, lifeVars>>

LoPut(k) ==
    /\ loops < MaxLoOps
    /\ ~lo.aborted
    /\ \E r \in {lo_tree_put(lo, k, LoDescriptor(lomodel[k].puts + 1, k))} :
           /\ lo' = r.tree
           /\ lolast' = [NoLoCall EXCEPT !.op = IF r.tree.aborted THEN "abort" ELSE "put",
                                         !.key = k, !.ret = r.ret]
           /\ lomodel' = [lomodel EXCEPT
                  ![k].puts = @ + 1,
                  ![k].optr = IF r.ret = 0
                              THEN LoDescriptor(lomodel[k].puts + 1, k) ELSE @]
    /\ loops' = loops + 1
    /\ UNCHANGED loFrame

LoGet(k) ==
    /\ loops < MaxLoOps
    /\ ~lo.aborted
    /\ lolast' = [NoLoCall EXCEPT !.op = "get", !.key = k,
                                  !.result = lo_tree_get(lo, k)]
    /\ loops' = loops + 1
    /\ UNCHANGED <<lo, lomodel, loFrame>>

LoDelete(k) ==
    /\ loops < MaxLoOps
    /\ ~lo.aborted
    /\ \E r \in {lo_tree_delete(lo, k)} :
           /\ lo' = r.tree
           /\ lolast' = [NoLoCall EXCEPT !.op = "delete", !.key = k, !.ret = r.ret]
    /\ lomodel' = [lomodel EXCEPT ![k].optr = NullObj]
    /\ loops' = loops + 1
    /\ UNCHANGED loFrame

LoNext ==
    \/ \E k \in LoKeys : LoPut(k)
    \/ \E k \in LoKeys : LoGet(k)
    \/ \E k \in LoKeys : LoDelete(k)

\* C13: a get on the large-object tree returns the descriptor of the last
\* put of the key, and the invalid descriptor when the key was never put or
\* was deleted since.
C13_LoGetReturnsLatest ==
    lolast.op = "get" => lolast.result = lomodel[lolast.key].optr

(***************************************************************************)
(* The locks of the DRAM side: the router's cache_lock (src/zipcache.c),   *)
(* and the rwlock, g_meta_lock, buffer_lock and queue_lock of              *)
(* src/DRAM-tier/lib/bplustree_compressed.c, over one leaf.  A thread's    *)
(* position is the pthread call it makes next; what the code does between  *)
(* two such calls happens with the earlier one.                            *)
(***************************************************************************)
Clients == {"c1", "c2"}
LockThreads == Clients \cup {"bg"}
LockNames == {"router", "rw", "meta", "buffer", "queue"}

\* The pthread call at each position, with its source line.
LockCallAt ==
    \* zipcache_put / zipcache_get
       "r_lock"     :> [op |-> "lock",   l |-> "router", line |-> 410]
    @@ "r_unlock"   :> [op |-> "unlock", l |-> "router", line |-> 421]
    \* bplus_tree_compressed_get
    @@ "get_rw"     :> [op |-> "rdlock", l |-> "rw",     line |-> 814]
    @@ "get_rw_u"   :> [op |-> "unlock", l |-> "rw",     line |-> 817]
    \* bplus_tree_compressed_put
    @@ "put_rw"     :> [op |-> "lock",   l |-> "rw",     line |-> 770]
    @@ "put_rw_u"   :> [op |-> "unlock", l |-> "rw",     line |-> 777]
    \* add_to_buffer
    @@ "atb_find"   :> [op |-> "lock",   l |-> "meta",   line |-> 385]
    @@ "atb_find_u" :> [op |-> "unlock", l |-> "meta",   line |-> 389]
    @@ "atb_add"    :> [op |-> "lock",   l |-> "meta",   line |-> 395]
    @@ "atb_add_u"  :> [op |-> "unlock", l |-> "meta",   line |-> 439]
    @@ "atb_mk"     :> [op |-> "lock",   l |-> "meta",   line |-> 150]
    @@ "atb_mk_u"   :> [op |-> "unlock", l |-> "meta",   line |-> 157]
    @@ "atb_buf"    :> [op |-> "lock",   l |-> "buffer", line |-> 166]
    @@ "atb_buf_u"  :> [op |-> "unlock", l |-> "buffer", line |-> 195]
    @@ "atb_q"      :> [op |-> "lock",   l |-> "queue",  line |-> 203]
    @@ "atb_q_u"    :> [op |-> "unlock", l |-> "queue",  line |-> 215]
    \* background_compression_thread
    @@ "bg_q"       :> [op |-> "lock",   l |-> "queue",  line |-> 227]
    @@ "bg_q_u"     :> [op |-> "unlock", l |-> "queue",  line |-> 247]
    \* flush_buffer_to_leaf and, under its buffer lock, flush_to_hashed_leaf
    @@ "fl_find"    :> [op |-> "lock",   l |-> "meta",   line |-> 385]
    @@ "fl_find_u"  :> [op |-> "unlock", l |-> "meta",   line |-> 389]
    @@ "fl_buf"     :> [op |-> "lock",   l |-> "buffer", line |-> 351]
    @@ "fl_dec"     :> [op |-> "lock",   l |-> "meta",   line |-> 385]
    @@ "fl_dec_u"   :> [op |-> "unlock", l |-> "meta",   line |-> 389]
    @@ "fl_cmp"     :> [op |-> "lock",   l |-> "meta",   line |-> 385]
    @@ "fl_cmp_u"   :> [op |-> "unlock", l |-> "meta",   line |-> 389]
    @@ "fl_buf_u"   :> [op |-> "unlock", l |-> "buffer", line |-> 362]
    \* bplus_tree_compressed_put after add_to_buffer failed
    @@ "pp_find"    :> [op |-> "lock",   l |-> "meta",   line |-> 385]
    @@ "pp_find_u"  :> [op |-> "unlock", l |-> "meta",   line |-> 389]
    @@ "pp_dec"     :> [op |-> "lock",   l |-> "meta",   line |-> 385]
    @@ "pp_dec_u"   :> [op |-> "unlock", l |-> "meta",   line |-> 389]
    @@ "pp_cmp"     :> [op |-> "lock",   l |-> "meta",   line |-> 385]
    @@ "pp_cmp_u"   :> [op |-> "unlock", l |-> "meta",   line |-> 389]

\* Where flush_buffer_to_leaf returns to.
AfterFlush(t) == IF t = "bg" THEN "bg_q" ELSE "pp_find"

\* The position after the call at pos returned, and what the code did to the
\* data d up to its next pthread call.
AfterCall(t, pos, d) ==
    CASE pos = "r_lock"     -> [at |-> "r_unlock", d |-> d]
      [] pos = "r_unlock"   -> [at |-> "idle", d |-> d]
      [] pos = "get_rw"     -> [at |-> "get_rw_u", d |-> d]
      [] pos = "get_rw_u"   -> [at |-> "idle", d |-> d]
      [] pos = "put_rw"     -> [at |-> "atb_find", d |-> d]
      [] pos = "put_rw_u"   -> [at |-> "idle", d |-> d]
      [] pos = "atb_find"   -> [at |-> "atb_find_u", d |-> d]
      [] pos = "atb_find_u" -> [at |-> IF ~d.meta THEN "atb_add"
                                      ELSE IF ~d.buffer THEN "atb_mk" ELSE "atb_buf",
                               d |-> d]
      [] pos = "atb_add"    -> [at |-> "atb_add_u", d |-> [d EXCEPT !.meta = TRUE]]
      [] pos = "atb_add_u"  -> [at |-> IF ~d.buffer THEN "atb_mk" ELSE "atb_buf", d |-> d]
      [] pos = "atb_mk"     -> [at |-> "atb_mk_u", d |-> [d EXCEPT !.buffer = TRUE]]
      [] pos = "atb_mk_u"   -> [at |-> "atb_buf", d |-> d]
      [] pos = "atb_buf"    -> [at |-> "atb_buf_u", d |-> d]
      [] pos = "atb_buf_u"  ->
             IF d.count >= MAX_BUFFER_ENTRIES
             THEN [at |-> "fl_find", d |-> d]
             ELSE [at |-> IF d.count + 1 >= d.buffer_flush_threshold
                          THEN "atb_q" ELSE "put_rw_u",
                   d |-> [d EXCEPT !.count = @ + 1, !.dirty = TRUE]]
      [] pos = "atb_q"      -> [at |-> "atb_q_u", d |-> [d EXCEPT !.queued = @ + 1]]
      [] pos = "atb_q_u"    -> [at |-> "put_rw_u", d |-> d]
      [] pos = "bg_q"       -> [at |-> "bg_q_u", d |-> [d EXCEPT !.queued = @ - 1]]
      [] pos = "bg_q_u"     -> [at |-> "fl_find", d |-> d]
      [] pos = "fl_find"    -> [at |-> "fl_find_u", d |-> d]
      [] pos = "fl_find_u"  -> [at |-> IF d.meta /\ d.buffer /\ d.count > 0 /\ d.dirty
                                      THEN "fl_buf" ELSE AfterFlush(t),
                               d |-> d]
      [] pos = "fl_buf"     -> [at |-> IF d.is_compressed THEN "fl_dec" ELSE "fl_cmp",
                               d |-> d]
      [] pos = "fl_dec"     -> [at |-> "fl_dec_u", d |-> d]
      [] pos = "fl_dec_u"   -> [at |-> "fl_cmp", d |-> [d EXCEPT !.is_compressed = FALSE]]
      [] pos = "fl_cmp"     -> [at |-> "fl_cmp_u", d |-> d]
      [] pos = "fl_cmp_u"   -> [at |-> "fl_buf_u", d |-> [d EXCEPT !.is_compressed = TRUE]]
      [] pos = "fl_buf_u"   -> [at |-> AfterFlush(t),
                               d |-> [d EXCEPT !.count = 0, !.dirty = FALSE]]
      [] pos = "pp_find"    -> [at |-> "pp_find_u", d |-> d]
      [] pos = "pp_find_u"  -> [at |-> IF d.meta /\ d.is_compressed THEN "pp_dec"
                                      ELSE "pp_cmp",
                               d |-> d]
      [] pos = "pp_dec"     -> [at |-> "pp_dec_u", d |-> d]
      [] pos = "pp_dec_u"   -> [at |-> "pp_cmp", d |-> [d EXCEPT !.is_compressed = FALSE]]
      [] pos = "pp_cmp"     -> [at |-> "pp_cmp_u", d |-> d]
      [] pos = "pp_cmp_u"   -> [at |-> "put_rw_u", d |-> [d EXCEPT !.is_compressed = TRUE]]

\* After init: no metadata entry for the leaf, an empty work queue, the
\* background thread started, buffer_flush_threshold as calloc left it.
LockInit ==
    /\ lk = [meta |-> FALSE, buffer |-> FALSE, count |-> 0, dirty |-> FALSE,
             is_compressed |-> FALSE, queued |-> 0, buffer_flush_threshold |-> 0]
    /\ lowner = [l \in LockNames |-> {}]
    /\ lheld = [t \in LockThreads |-> <<>>]
    /\ lpc = [t \in LockThreads |-> IF t = "bg" THEN "bg_q" ELSE "idle"]
    /\ lcalls = 0

lockFrame == <<routerVars, threadVars, dramVars, ssdVars, leafVars, loVars, allocVars, hashVars, lifeVars>>

\* A client enters zipcache_put or zipcache_get.
BeginRouterCall(t) ==
    /\ lpc[t] = "idle" /\ lcalls < MaxLockCalls
    /\ lpc' = [lpc EXCEPT ![t] = "r_lock"]
    /\ lcalls' = lcalls + 1
    /\ UNCHANGED <<lk, lowner, lheld, lockFrame>>

\* A client enters bplus_tree_compressed_put.
BeginCompressedPut(t) ==
    /\ lpc[t] = "idle" /\ lcalls < MaxLockCalls
    /\ lpc' = [lpc EXCEPT ![t] = "put_rw"]
    /\ lcalls' = lcalls + 1
    /\ UNCHANGED <<lk, lowner, lheld, lockFrame>>

\* A client enters bplus_tree_compressed_get.
BeginCompressedGet(t) ==
    /\ lpc[t] = "idle" /\ lcalls < MaxLockCalls
    /\ lpc' = [lpc EXCEPT ![t] = "get_rw"]
    /\ lcalls' = lcalls + 1
    /\ UNCHANGED <<lk, lowner, lheld, lockFrame>>

\* pthread_mutex_lock / pthread_rwlock_wrlock returns.  The background
\* thread leaves pthread_cond_wait with the queue lock once work is queued.
AcquireLock(t) ==
    /\ lpc[t] \in DOMAIN LockCallAt
    /\ LockCallAt[lpc[t]].op = "lock"
    /\ lowner[LockCallAt[lpc[t]].l] = {}
    /\ lpc[t] = "bg_q" => lk.queued > 0
    /\ \E r \in {AfterCall(t, lpc[t], lk)} :
           /\ lk' = r.d
           /\ lpc' = [lpc EXCEPT ![t] = r.at]
    /\ lowner' = [lowner EXCEPT ![LockCallAt[lpc[t]].l] = {t}]
    /\ lheld' = [lheld EXCEPT ![t] = Append(@, LockCallAt[lpc[t]].l)]
    /\ UNCHANGED <<lcalls, lockFrame>>

\* pthread_rwlock_rdlock returns: no writer holds the lock.
AcquireShared(t) ==
    /\ lpc[t] \in DOMAIN LockCallAt
    /\ LockCallAt[lpc[t]].op = "rdlock"
    /\ \A u \in lowner["rw"] : lpc[u] = "get_rw_u"
    /\ \E r \in {AfterCall(t, lpc[t], lk)} :
           /\ lk' = r.d
           /\ lpc' = [lpc EXCEPT ![t] = r.at]
    /\ lowner' = [lowner EXCEPT !["rw"] = @ \cup {t}]
    /\ lheld' = [lheld EXCEPT ![t] = Append(@, "rw")]
    /\ UNCHANGED <<lcalls, lockFrame>>

\* pthread_mutex_unlock / pthread_rwlock_unlock.
ReleaseLock(t) ==
    /\ lpc[t] \in DOMAIN LockCallAt
    /\ LockCallAt[lpc[t]].op = "unlock"
    /\ \E r \in {AfterCall(t, lpc[t], lk)} :
           /\ lk' = r.d
           /\ lpc' = [lpc EXCEPT ![t] = r.at]
    /\ lowner' = [lowner EXCEPT ![LockCallAt[lpc[t]].l] = @ \ {t}]
    /\ lheld' = [lheld EXCEPT ![t] =
                    SelectSeq(@, LAMBDA l : l # LockCallAt[lpc[t]].l)]
    /\ UNCHANGED <<lcalls, lockFrame>>

LockNext ==
    \/ \E t \in Clients : BeginRouterCall(t)
    \/ \E t \in Clients : BeginCompressedPut(t)
    \/ \E t \in Clients : BeginCompressedGet(t)
    \/ \E t \in LockThreads : AcquireLock(t)
    \/ \E t \in LockThreads : AcquireShared(t)
    \/ \E t \in LockThreads : ReleaseLock(t)

\* The place of a lock in the documented order; the queue lock has none.
LockRank(l) ==
    CASE l = "router" -> 1 [] l = "rw" -> 2 [] l = "meta" -> 3 [] l = "buffer" -> 4
      [] OTHER -> 0

\* C16: a thread holds the locks router, rwlock, metadata map, buffer only
\* in this order of acquisition, and holds no buffer lock that it acquired
\* while holding the work-queue lock.
C16_LockOrder ==
    \A t \in LockThreads : \A i, j \in 1..Len(lheld[t]) :
        i < j => /\ (LockRank(lheld[t][i]) > 0 /\ LockRank(lheld[t][j]) > 0)
                        => LockRank(lheld[t][i]) < LockRank(lheld[t][j])
                 /\ ~(lheld[t][i] = "queue" /\ lheld[t][j] = "buffer")

\* The positions at which a thread is inside code that reads the leaf's
\* arrays (bplus_tree_get, line 816) or rewrites them and the leaf's
\* compression state (flush_to_hashed_leaf under buffer_lock, lines 355 and
\* 261-317; the direct insert of bplus_tree_compressed_put, lines 784-802).
ReadsLeaf(t) == lpc[t] = "get_rw_u"

ModifiesLeaf(t) ==
    lpc[t] \in {"fl_dec", "fl_dec_u", "fl_cmp", "fl_cmp_u", "fl_buf_u",
                "pp_dec", "pp_dec_u", "pp_cmp", "pp_cmp_u"}

HoldsRwlock(t) == t \in lowner["rw"]

\* C35: the background flusher is never rewriting the leaf while a caller
\* of get or put is reading or rewriting it.
C35_FlusherExcludesCallers ==
    ~(ModifiesLeaf("bg") /\ \E c \in Clients : ReadsLeaf(c) \/ ModifiesLeaf(c))

\* The callers themselves are under the rwlock whenever they touch the leaf.
C35_CallersHoldRwlock ==
    \A c \in Clients : (ReadsLeaf(c) \/ ModifiesLeaf(c)) => HoldsRwlock(c)

(***************************************************************************)
(* Calls on a block allocator of AllocBlocks blocks.                       *)
(***************************************************************************)
\* Block ids a caller frees: every block, one past the last, and 2^32 - 1.
FreeIds == (0..AllocBlocks) \cup {INVALID_BLOCK_ID}

\* Counts a caller asks for: 0 .. AllocBlocks + 1, and 2^32 - 1.
AllocCounts == (0..(AllocBlocks + 1)) \cup {INVALID_BLOCK_ID}

NoAllocCall ==
    [op |-> "none", count |-> 0, ret |-> 0, block_ids |-> <<>>,
     before |-> block_allocator_init(AllocBlocks), held |-> {}]

AllocInit ==
    /\ ba = block_allocator_init(AllocBlocks)
    /\ balast = NoAllocCall
    /\ issued = {}
    /\ baops = 0

allocFrame == <<routerVars, threadVars, dramVars, ssdVars, leafVars, loVars, lockVars, hashVars, lifeVars>>

\* The block ids of an array, as a set.
IdsOf(block_ids) == {block_ids[i] : i \in 1..Len(block_ids)}

\* allocate_block(allocator)
Allocate ==
    /\ baops < MaxAllocOps
    /\ \E a \in {allocate_block(ba)} :
           /\ ba' = a.allocator
           /\ balast' = [NoAllocCall EXCEPT
                  !.op = "allocate", !.count = 1,
                  !.ret = IF a.block_id = INVALID_BLOCK_ID THEN -1 ELSE 0,
                  !.block_ids = <<a.block_id>>, !.before = ba, !.held = issued]
           /\ issued' = issued \cup ({a.block_id} \ {INVALID_BLOCK_ID})
    /\ baops' = baops + 1
    /\ UNCHANGED allocFrame

\* allocate_multiple_blocks(allocator, count, block_ids)
AllocateMany(count) ==
    /\ baops < MaxAllocOps
    /\ \E a \in {allocate_multiple_blocks(ba, count)} :
           /\ ba' = a.allocator
           /\ balast' = [NoAllocCall EXCEPT
                  !.op = "allocate_many", !.count = count, !.ret = a.ret,
                  !.block_ids = a.block_ids, !.before = ba, !.held = issued]
           /\ issued' = IF a.ret = 0 THEN issued \cup IdsOf(a.block_ids) ELSE issued
    /\ baops' = baops + 1
    /\ UNCHANGED allocFrame

\* free_block(allocator, block_id)
Free(block_id) ==
    /\ baops < MaxAllocOps
    /\ ba' = free_block(ba, block_id)
    /\ balast' = [NoAllocCall EXCEPT
           !.op = "free", !.count = 1, !.block_ids = <<block_id>>,
           !.before = ba, !.held = issued]
    /\ issued' = issued \ {block_id}
    /\ baops' = baops + 1
    /\ UNCHANGED allocFrame

\* free_multiple_blocks(allocator, count, block_ids)
FreeMany(block_ids) ==
    /\ baops < MaxAllocOps
    /\ ba' = free_multiple_blocks(ba, Len(block_ids), block_ids, 0)
    /\ balast' = [NoAllocCall EXCEPT
           !.op = "free_many", !.count = Len(block_ids), !.block_ids = block_ids,
           !.before = ba, !.held = issued]
    /\ issued' = issued \ IdsOf(block_ids)
    /\ baops' = baops + 1
    /\ UNCHANGED allocFrame

AllocNext ==
    \/ Allocate
    \/ \E count \in AllocCounts : AllocateMany(count)
    \/ \E block_id \in FreeIds : Free(block_id)
    \/ \E n \in 1..MaxFreeIds : \E block_ids \in [1..n -> FreeIds] : FreeMany(block_ids)

\* C22: the bit of a block is set exactly when the block was issued and not
\* freed since, allocated_blocks is the number of set bits, and a call
\* issues no block that is still issued.
C22_BitmapTracksIssued ==
    /\ \A b \in 0..(AllocBlocks - 1) : ba.bitmap[b + 1] <=> b \in issued
    /\ ba.allocated_blocks = Cardinality({b \in 1..AllocBlocks : ba.bitmap[b]})
    /\ (balast.op \in {"allocate", "allocate_many"} /\ balast.ret = 0)
           => /\ IdsOf(balast.block_ids) \cap balast.held = {}
              /\ Cardinality(IdsOf(balast.block_ids)) = Len(balast.block_ids)

\* A free of a block that is not issued came back, with blocks still issued.
C22_Witness ==
    /\ balast.op \in {"free", "free_many"}
    /\ \E i \in 1..Len(balast.block_ids) :
           balast.block_ids[i] \in 0..(AllocBlocks - 1)
               /\ ~balast.before.bitmap[balast.block_ids[i] + 1]
    /\ issued # {}

\* C23: allocate_multiple_blocks(n) returns 0 with n distinct blocks that
\* were free before and are allocated now, or fails with the bitmap and
\* allocated_blocks as they were; allocate_block on a full allocator
\* returns no block.
C23_AllocateManyAllOrNothing ==
    /\ balast.op = "allocate_many" =>
           IF balast.ret = 0
           THEN /\ Len(balast.block_ids) = balast.count
                /\ Cardinality(IdsOf(balast.block_ids)) = balast.count
                /\ \A b \in IdsOf(balast.block_ids) :
                       b \in 0..(AllocBlocks - 1) /\ ~balast.before.bitmap[b + 1]
                                                  /\ ba.bitmap[b + 1]
                /\ ba.allocated_blocks = balast.before.allocated_blocks + balast.count
           ELSE /\ ba.bitmap = balast.before.bitmap
                /\ ba.allocated_blocks = balast.before.allocated_blocks
    /\ (balast.op = "allocate"
            /\ balast.before.allocated_blocks = balast.before.total_blocks)
           => balast.block_ids = <<INVALID_BLOCK_ID>> /\ ba = balast.before

\* allocate_multiple_blocks failed after it had taken blocks.
C23_Witness ==
    /\ balast.op = "allocate_many" /\ balast.ret = -1
    /\ Len(balast.block_ids) > 1
    /\ balast.before.allocated_blocks > 0

(***************************************************************************)
(* The router over a populated SSD index.  zipcache.h lays the indexes of  *)
(* the cache open to its user, and the router reads the SSD index on a     *)
(* miss of the upper tiers; a record gets there by a put on cache->bt_ssd. *)
(***************************************************************************)
\* bplus_tree_ssd_put(cache->bt_ssd, zipcache_hash_key(key), data).
ssd_tier_put(k) ==
    /\ ops < MaxOps
    /\ \E r \in {bplus_tree_ssd_put(cache.bt_ssd, KeyHash[k], k)} :
           cache' = [cache EXCEPT !.bt_ssd = r.tree]
    /\ last' = [NoCall EXCEPT !.op = "ssd_put", !.key = k]
    /\ ops' = ops + 1
    /\ UNCHANGED <<storage, expect, damaged, threadVars, dramVars, moreVars>>

TiersNext ==
    \/ \E k \in Keys, b \in Bufs : zipcache_put(k, b)
    \/ \E k \in Keys : zipcache_get(k)
    \/ \E k \in Keys : zipcache_delete(k)
    \/ \E k \in Keys : ssd_tier_put(k)

\* The indexes that hold a mapping for a key hash.
InDram(c, h) ==
    c.bt_dram.root
        /\ key_binary_search(c.bt_dram.leaf.key, c.bt_dram.leaf.entries, h) >= 0
InLo(c, h) == key_binary_search(c.bt_lo.key, c.bt_lo.entries, h) >= 0
InSsd(c, h) == h \in DOMAIN c.bt_ssd
InSomeTier(c, h) == InDram(c, h) \/ InLo(c, h) \/ InSsd(c, h)

\* The step is a DELETE of key k that returns.
DeleteStep(k) == last'.op = "delete" /\ last'.key = k /\ ops' = ops + 1

\* C14: a DELETE of key k leaves no mapping for k in the DRAM, the
\* large-object and the SSD index, and returns OK when one of them held a
\* mapping for k.
C14_DeleteRemovesFromAllTiers ==
    [][\A k \in Keys :
          DeleteStep(k)
              => /\ ~InSomeTier(cache', KeyHash[k])
                 /\ InSomeTier(cache, KeyHash[k]) => last'.result = ZIPCACHE_OK]_vars

\* C15: a DELETE of a key that no index maps returns NOT_FOUND and changes
\* neither the indexes, nor the large-object file, nor any statistic other
\* than the miss counter.
C15_DeleteOfAbsentKey ==
    [][\A k \in Keys :
          (DeleteStep(k) /\ ~InSomeTier(cache, KeyHash[k]))
              => /\ last'.result = ZIPCACHE_NOT_FOUND
                 /\ storage' = storage
                 /\ cache' = [cache EXCEPT !.stats.misses = cache'.stats.misses]]_vars

\* A DELETE of a key that no index maps has returned NOT_FOUND, the DRAM
\* index holding a record of another key.
C15_Witness ==
    /\ last.op = "delete" /\ last.result = ZIPCACHE_NOT_FOUND
    /\ ~InSomeTier(cache, KeyHash[last.key])
    /\ cache.bt_dram.leaf.entries > 0
    /\ cache.stats.puts_tiny + cache.stats.puts_medium > 0

(***************************************************************************)
(* zipcache_put and zipcache_set_thresholds on several threads.            *)
(* zipcache_put classifies the value before it takes cache_lock:           *)
(* zipcache_classify_object reads tiny_threshold and, for a size above it, *)
(* medium_threshold.  zipcache_set_thresholds stores the two fields one    *)
(* after the other, holding cache_lock.                                    *)
(***************************************************************************)
lifeFrame == <<dramVars, ssdVars, leafVars, loVars, lockVars, allocVars, hashVars>>

LifeInit ==
    /\ installed = {<<TinyMax, MediumMax>>}
    /\ epc = "check"
    /\ dpc = "none"

\* zipcache_put up to the call of zipcache_classify_object.
BeginPut(t, k, b) ==
    /\ pc[t] = "idle"
    /\ dpc = "none"
    /\ ops < MaxCalls
    /\ call' = [call EXCEPT ![t] =
            [NoCall EXCEPT !.op = "put", !.key = k, !.buf = b, !.size = SizeOf(b)]]
    /\ pc' = [pc EXCEPT ![t] = "classify"]
    /\ ops' = ops + 1
    /\ UNCHANGED <<cache, storage, last, expect, damaged, cache_lock, want, ref,
                   lifeVars, lifeFrame>>

\* zipcache_classify_object: size <= cache->tiny_threshold.
ReadTiny(t) ==
    /\ pc[t] = "classify"
    /\ call' = [call EXCEPT ![t].tiny_max = cache.tiny_threshold,
                            ![t].type = IF call[t].size <= cache.tiny_threshold
                                        THEN ZIPCACHE_OBJ_TINY ELSE @]
    /\ pc' = [pc EXCEPT ![t] = IF call[t].size <= cache.tiny_threshold
                               THEN "lock" ELSE "classify2"]
    /\ UNCHANGED <<routerVars, cache_lock, want, ref, lifeVars, lifeFrame>>

\* zipcache_classify_object: size <= cache->medium_threshold.
ReadMedium(t) ==
    /\ pc[t] = "classify2"
    /\ call' = [call EXCEPT ![t].medium_max = cache.medium_threshold,
                            ![t].type = IF call[t].size <= cache.medium_threshold
                                        THEN ZIPCACHE_OBJ_MEDIUM
                                        ELSE ZIPCACHE_OBJ_LARGE]
    /\ pc' = [pc EXCEPT ![t] = "lock"]
    /\ UNCHANGED <<routerVars, cache_lock, want, ref, lifeVars, lifeFrame>>

\* zipcache_set_thresholds up to pthread_mutex_lock; a rejected pair returns
\* at once.
BeginSetThresholds(t, tiny_max, medium_max) ==
    /\ pc[t] = "idle"
    /\ dpc = "none"
    /\ ops < MaxCalls
    /\ ops' = ops + 1
    /\ \E r \in {zipcache_set_thresholds(cache, tiny_max, medium_max)} :
           \E cl \in {[NoCall EXCEPT !.op = "set_thresholds", !.result = r.result,
                           !.tiny_max = tiny_max, !.medium_max = medium_max]} :
              IF r.result = ZIPCACHE_OK
              THEN /\ call' = [call EXCEPT ![t] = cl]
                   /\ pc' = [pc EXCEPT ![t] = "tlock"]
                   /\ installed' = installed \cup {<<tiny_max, medium_max>>}
                   /\ UNCHANGED last
              ELSE /\ last' = cl
                   /\ UNCHANGED <<call, pc, installed>>
    /\ UNCHANGED <<cache, storage, expect, damaged, cache_lock, want, ref,
                   epc, dpc, lifeFrame>>

LockThresholds(t) ==
    /\ pc[t] = "tlock"
    /\ MutexFree(cache_lock)
    /\ cache_lock' = t
    /\ pc' = [pc EXCEPT ![t] = "write_tiny"]
    /\ UNCHANGED <<routerVars, call, want, ref, lifeVars, lifeFrame>>

\* cache->tiny_threshold = tiny_max;
WriteTiny(t) ==
    /\ pc[t] = "write_tiny"
    /\ cache' = [cache EXCEPT !.tiny_threshold = call[t].tiny_max]
    /\ pc' = [pc EXCEPT ![t] = "write_medium"]
    /\ UNCHANGED <<storage, last, expect, damaged, ops, cache_lock, call, want, ref,
                   lifeVars, lifeFrame>>

\* cache->medium_threshold = medium_max;
WriteMedium(t) ==
    /\ pc[t] = "write_medium"
    /\ cache' = [cache EXCEPT !.medium_threshold = call[t].medium_max]
    /\ pc' = [pc EXCEPT ![t] = "unlock"]
    /\ UNCHANGED <<storage, last, expect, damaged, ops, cache_lock, call, want, ref,
                   lifeVars, lifeFrame>>

ThresholdValues == 0..MaxThreshold

ThresholdsNext ==
    \/ \E t \in Threads, k \in Keys, b \in Bufs : BeginPut(t, k, b)
    \/ \E t \in Threads : ReadTiny(t)
    \/ \E t \in Threads : ReadMedium(t)
    \/ \E t \in Threads, tiny_max \in ThresholdValues, medium_max \in ThresholdValues :
           BeginSetThresholds(t, tiny_max, medium_max)
    \/ \E t \in Threads : LockThresholds(t)
    \/ \E t \in Threads : WriteTiny(t)
    \/ \E t \in Threads : WriteMedium(t)
    \/ \E t \in Threads : LockCache(t)
    \/ \E t \in Threads : Step1(t)
    \/ \E t \in Threads : Step2(t)
    \/ \E t \in Threads : UnlockCache(t)

\* The PUT of thread t has its class.
Classified(t) ==
    call[t].op = "put" /\ pc[t] \in {"lock", "step1", "step2", "unlock"}

\* C39: a PUT that runs while zipcache_set_thresholds runs classifies its
\* value with a pair of thresholds the cache was given, the old one or the
\* new one, never with the tiny threshold of one pair and the medium
\* threshold of another.
C39_PutUsesOnePair ==
    \A t \in Threads :
        Classified(t)
            => \E p \in installed : call[t].type = ClassOf(call[t].size, p[1], p[2])

(***************************************************************************)
(* The eviction thread and zipcache_destroy next to the callers.           *)
(* zipcache_destroy sets shutdown_flag, joins the eviction thread and then *)
(* destroys the locks, frees the tiers, closes the file and frees the      *)
(* cache; it takes no lock.  A caller that goes on after that works on     *)
(* destroyed locks and freed memory: it may go on as if nothing happened,  *)
(* hang, or end the process.                                               *)
(***************************************************************************)
\* Variant: the flag read once before the loop, when it was 0.
flag_read_once(flag) == FALSE

\* while (!shutdown_flag): the flag is a plain int read anew at each test.
shutdown_requested(flag) == flag # 0

\* The eviction thread as an owner of cache_lock.
EVICTOR == NumThreads + 1

BeginGet(t, k) == dpc = "none" /\ CallGet(t, k)

BeginDelete(t, k) == dpc = "none" /\ CallDelete(t, k)

\* zipcache_eviction_thread: while (!cache->shutdown_flag), and the test
\* zipcache_needs_eviction(cache) of a turn of the loop.
EvictorTest ==
    /\ epc = "check"
    /\ epc' = IF shutdown_requested(cache.shutdown_flag) THEN "exited"
              ELSE IF zipcache_needs_eviction(cache)
                         /\ cache.stats.evictions < MaxEvictions THEN "lock"
              ELSE "sleep"
    /\ UNCHANGED <<routerVars, threadVars, installed, dpc, lifeFrame>>

EvictorLock ==
    /\ epc = "lock"
    /\ MutexFree(cache_lock)
    /\ cache_lock' = EVICTOR
    /\ epc' = "evict"
    /\ UNCHANGED <<routerVars, pc, call, want, ref, installed, dpc, lifeFrame>>

\* zipcache_evict_cold_pages(cache, target_bytes), cache_lock held.
EvictorEvict ==
    /\ epc = "evict"
    /\ \E r \in {zipcache_evict_cold_pages(cache, eviction_target(cache))} :
           /\ cache' = r.cache
           /\ epc' = IF r.result = ZIPCACHE_OK THEN "unlock" ELSE "unlock_failed"
    /\ UNCHANGED <<storage, last, expect, damaged, ops, threadVars, installed, dpc,
                   lifeFrame>>

EvictorUnlock ==
    /\ epc \in {"unlock", "unlock_failed"}
    /\ cache_lock' = 0
    /\ epc' = IF epc = "unlock" THEN "count" ELSE "sleep"
    /\ UNCHANGED <<routerVars, pc, call, want, ref, installed, dpc, lifeFrame>>

\* cache->stats.evictions++, under stats_lock.
EvictorCount ==
    /\ epc = "count"
    /\ cache' = [cache EXCEPT !.stats.evictions = @ + 1]
    /\ epc' = "sleep"
    /\ UNCHANGED <<storage, last, expect, damaged, ops, threadVars, installed, dpc,
                   lifeFrame>>

\* sleep(1) returns.
EvictorWake ==
    /\ epc = "sleep"
    /\ epc' = "check"
    /\ UNCHANGED <<routerVars, threadVars, installed, dpc, lifeFrame>>

\* zipcache_destroy: cache->shutdown_flag = 1.
DestroyBegin ==
    /\ dpc = "none"
    /\ cache' = [cache EXCEPT !.shutdown_flag = 1]
    /\ dpc' = "join"
    /\ UNCHANGED <<storage, last, expect, damaged, ops, threadVars, installed, epc,
                   lifeFrame>>

\* pthread_join(cache->eviction_thread, NULL).
DestroyJoin ==
    /\ dpc = "join"
    /\ ThreadEnded(epc)
    /\ dpc' = "locks"
    /\ UNCHANGED <<routerVars, threadVars, installed, epc, lifeFrame>>

\* The statements of zipcache_destroy after the join, one group at a time:
\* the four pthread_mutex_destroy, the three deinit of the tiers, fsync and
\* close of ssd_fd, free of the access bits and of the cache.
DestroyStep ==
    /\ dpc \in {"locks", "tiers", "file", "free"}
    /\ dpc' = CASE dpc = "locks" -> "tiers"
                [] dpc = "tiers" -> "file"
                [] dpc = "file" -> "free"
                [] dpc = "free" -> "done"
    /\ UNCHANGED <<routerVars, threadVars, installed, epc, lifeFrame>>

\* What zipcache_destroy has torn down so far.
LocksDestroyed == dpc \in {"tiers", "file", "free", "done"}
TiersFreed == dpc \in {"file", "free", "done"}

\* pthread_mutex_lock on the destroyed cache_lock returns without the lock;
\* zipcache_put, zipcache_get and zipcache_delete do not look at what it
\* returns.
LockDestroyed(t) ==
    /\ pc[t] = "lock"
    /\ LocksDestroyed
    /\ pc' = [pc EXCEPT ![t] = "step1"]
    /\ UNCHANGED <<routerVars, cache_lock, call, want, ref, lifeVars, lifeFrame>>

\* A caller at work on the freed tiers ends the process.
UseAfterFree(t) ==
    /\ pc[t] \in {"step1", "step2", "unlock"}
    /\ TiersFreed
    /\ pc' = [pc EXCEPT ![t] = "crashed"]
    /\ UNCHANGED <<routerVars, cache_lock, call, want, ref, lifeVars, lifeFrame>>

LifeThreads == 1..NumLifeThreads

DestroyNext ==
    \/ \E t \in LifeThreads, k \in Keys, b \in Bufs : BeginPut(t, k, b)
    \/ \E t \in LifeThreads : ReadTiny(t)
    \/ \E t \in LifeThreads : ReadMedium(t)
    \/ \E t \in LifeThreads, k \in Keys : BeginGet(t, k)
    \/ \E t \in LifeThreads, k \in Keys : BeginDelete(t, k)
    \/ \E t \in LifeThreads : LockCache(t)
    \/ \E t \in LifeThreads : Step1(t)
    \/ \E t \in LifeThreads : Step2(t)
    \/ \E t \in LifeThreads : UnlockCache(t)
    \/ EvictorTest
    \/ EvictorLock
    \/ EvictorEvict
    \/ EvictorUnlock
    \/ EvictorCount
    \/ EvictorWake
    \/ DestroyBegin
    \/ DestroyJoin
    \/ DestroyStep
    \/ \E t \in LifeThreads : LockDestroyed(t)
    \/ \E t \in LifeThreads : UseAfterFree(t)

\* C38: a PUT, GET or DELETE that is in progress when zipcache_destroy is
\* called has returned before zipcache_destroy destroys the locks, frees the
\* tiers and closes the file.
C38_DestroyWaitsForCalls ==
    LocksDestroyed => \A t \in Threads : pc[t] = "idle"

(***************************************************************************)
(* The flusher of the compressed DRAM tree with its condition variable.    *)
(* Every section of code between pthread_mutex_lock and                    *)
(* pthread_mutex_unlock of queue_lock is one step.  flusher is "wait" at   *)
(* the test of the outer loop, "queue" where it asks for queue_lock,       *)
(* "sleep" inside pthread_cond_wait, "flush" with a work item in hand.     *)
(***************************************************************************)
\* Variant: the signal wakes nobody.
cond_signal_lost(thread) == thread

\* pthread_cond_signal(&queue_cond): a thread inside pthread_cond_wait
\* leaves it and asks for queue_lock again.
cond_signal(thread) == IF thread = "sleep" THEN "queue" ELSE thread

\* bplus_tree_compressed_put; add_to_buffer signals queue_cond when it has
\* put a work item on the queue.
SignallingPut(k, v) ==
    /\ app = "running"
    /\ dops < MaxDramOps
    /\ \E r \in {bplus_tree_compressed_put(dram, k, v)} :
           /\ ~r.d.tree.split
           /\ dram' = r.d
           /\ dlast' = [op |-> "put", key |-> k, value |-> v, result |-> r.ret,
                        direct |-> r.direct, buffered |-> dram.meta.entries]
           /\ flusher' = IF r.d.work_queue.count > dram.work_queue.count
                         THEN cond_signal(flusher) ELSE flusher
    /\ dmodel' = [dmodel EXCEPT ![k] = v]
    /\ synced' = FALSE
    /\ dops' = dops + 1
    /\ UNCHANGED <<app, routerVars, threadVars, moreVars>>

\* background_compression_thread: while (!ct_tree->shutdown_flag).
FlusherTest ==
    /\ flusher = "wait"
    /\ flusher' = IF shutdown_requested(dram.shutdown_flag) THEN "exited" ELSE "queue"
    /\ UNCHANGED <<dram, app, dlast, dmodel, synced, dops, routerVars, threadVars, moreVars>>

\* background_compression_thread with queue_lock: the test of the inner
\* loop, then pthread_cond_wait, the break, or the head of the queue.
FlusherQueue ==
    /\ flusher = "queue"
    /\ IF dram.work_queue.count = 0 /\ ~shutdown_requested(dram.shutdown_flag)
       THEN flusher' = "sleep" /\ UNCHANGED dram
       ELSE IF shutdown_requested(dram.shutdown_flag)
       THEN flusher' = "exited" /\ UNCHANGED dram
       ELSE /\ dram' = [dram EXCEPT !.work_queue.count = @ - 1]
            /\ flusher' = "flush"
    /\ UNCHANGED <<app, dlast, dmodel, synced, dops, routerVars, threadVars, moreVars>>

\* bplus_tree_compressed_deinit: pthread_cond_signal with queue_lock.
DeinitWake ==
    /\ app = "signal"
    /\ flusher' = cond_signal(flusher)
    /\ app' = "join"
    /\ UNCHANGED <<dram, dlast, dmodel, synced, dops, routerVars, threadVars, moreVars>>

FlusherNext ==
    \/ \E k \in DramKeys, v \in DramVals : SignallingPut(k, v)
    \/ FlusherTest
    \/ FlusherQueue
    \/ FlusherFlush
    \/ DeinitShutdown
    \/ DeinitWake
    \/ DeinitJoin
    \/ DeinitFlush
    \/ DeinitCleanup

\* The flusher thread is scheduled as long as it can run.
FlusherFair ==
    /\ WF_vars(FlusherTest)
    /\ WF_vars(FlusherQueue)
    /\ WF_vars(FlusherFlush)

\* Work items on the queue.
Queued == dram.work_queue.count

\* C36: while the tree is running, every work item put on the queue is
\* taken off it by the flusher thread, and the flusher flushes the buffer of
\* the item it took; no wake-up is lost between the enqueue and the
\* flusher's wait on the condition variable.
C36_QueuedItemIsFlushed ==
    /\ (Queued > 0 /\ app = "running") ~> (flusher = "flush" \/ app # "running")
    /\ (flusher = "flush")
           ~> (flusher = "wait" /\ dlast.op = "background" /\ ~dram.meta.dirty)

\* An item was queued while the flusher slept in pthread_cond_wait, and the
\* flusher has flushed it.
C36_Witness ==
    /\ dlast.op = "background"
    /\ dram.background_flushes > 0
    /\ Queued = 0
    /\ flusher = "sleep"
    /\ app = "running"

(***************************************************************************)
(* A process that owns a cache and a compressed DRAM tree and shuts both  *)
(* down: zipcache_destroy up to the return of its pthread_join, and        *)
(* bplus_tree_compressed_deinit up to the return of its pthread_join.      *)
(***************************************************************************)
LivePut(t, k, b) == ops + dops < MaxLiveOps /\ BeginPut(t, k, b)

LiveTreePut(k, v) == ops + dops < MaxLiveOps /\ SignallingPut(k, v)

ShutdownNext ==
    \/ \E t \in LifeThreads, k \in Keys, b \in Bufs : LivePut(t, k, b)
    \/ \E t \in LifeThreads : ReadTiny(t)
    \/ \E t \in LifeThreads : ReadMedium(t)
    \/ \E t \in LifeThreads : LockCache(t)
    \/ \E t \in LifeThreads : Step1(t)
    \/ \E t \in LifeThreads : Step2(t)
    \/ \E t \in LifeThreads : UnlockCache(t)
    \/ EvictorTest
    \/ EvictorLock
    \/ EvictorEvict
    \/ EvictorUnlock
    \/ EvictorCount
    \/ EvictorWake
    \/ DestroyBegin
    \/ DestroyJoin
    \/ \E k \in DramKeys, v \in DramVals : LiveTreePut(k, v)
    \/ FlusherTest
    \/ FlusherQueue
    \/ FlusherFlush
    \/ DeinitShutdown
    \/ DeinitWake
    \/ DeinitJoin

\* Every thread that can run is scheduled: the eviction thread, the flusher,
\* a caller inside zipcache_put, and the threads inside zipcache_destroy and
\* bplus_tree_compressed_deinit.  sleep(1) returns.
ShutdownFair ==
    /\ WF_vars(EvictorTest) /\ WF_vars(EvictorLock) /\ WF_vars(EvictorEvict)
    /\ WF_vars(EvictorUnlock) /\ WF_vars(EvictorCount) /\ WF_vars(EvictorWake)
    /\ FlusherFair
    /\ \A t \in LifeThreads :
           /\ WF_vars(ReadTiny(t)) /\ WF_vars(ReadMedium(t)) /\ WF_vars(LockCache(t))
           /\ WF_vars(Step1(t)) /\ WF_vars(Step2(t)) /\ WF_vars(UnlockCache(t))
    /\ WF_vars(DestroyJoin)
    /\ WF_vars(DeinitWake) /\ WF_vars(DeinitJoin)

\* C32: once zipcache_destroy or bplus_tree_compressed_deinit has set the
\* shutdown flag, the eviction thread and the flusher thread each exit,
\* whether they sleep, wait on the condition variable or have queued work,
\* and the pthread_join that waits for them returns.
C32_ShutdownTerminates ==
    /\ (cache.shutdown_flag # 0) ~> (epc = "exited" /\ dpc = "locks")
    /\ (dram.shutdown_flag # 0) ~> (flusher = "exited" /\ app = "flush")

\* Both joins have returned; the flusher left an item on the queue, and the
\* cache was in use.
C32_Witness ==
    /\ cache.shutdown_flag # 0 /\ epc = "exited" /\ dpc = "locks"
    /\ dram.shutdown_flag # 0 /\ flusher = "exited" /\ app = "flush"
    /\ Queued > 0
    /\ ops > 0

(***************************************************************************)
(* The sub-page hash functions on their own: the slot range a flush of the *)
(* compressed DRAM leaf derives from a key, and the sub-page an operation  *)
(* on a super-leaf picks.  key_t is int; the router's keys are 32-bit      *)
(* hashes cast to it.                                                      *)
(***************************************************************************)
INT_MAX == 2147483647
INT_MIN == (-2147483647) - 1

HashKeys == ((-HashKeyMax)..HashKeyMax) \cup {INT_MIN, INT_MIN + 1, INT_MAX - 1, INT_MAX}

NoHashCall ==
    [op |-> "none", key |-> 0, num_sub_pages |-> 0, ret |-> 0,
     sub_page_index |-> 0, start_index |-> 0, end_index |-> 0, slots |-> 0]

HashInit == hcall = NoHashCall

hashFrame == <<routerVars, threadVars, dramVars, ssdVars, leafVars, loVars, lockVars, allocVars, lifeVars>>

\* flush_to_hashed_leaf, for one buffered key: the slots [start_index, end_index)
\* of leaf->key and leaf->data that the loop over j reads and writes.
DramSlotRange(key, num_sub_pages) ==
    /\ hcall' =
         IF num_sub_pages <= 0
         THEN [NoHashCall EXCEPT !.op = "dram", !.key = key,
                                 !.num_sub_pages = num_sub_pages, !.ret = -1,
                                 !.slots = LeafEntries]
         ELSE LET sub_page_capacity == LeafEntries \div num_sub_pages
                  sub_page_index == hash_key_to_sub_page(key, num_sub_pages)
                  start_index == sub_page_index * sub_page_capacity
              IN  [op |-> "dram", key |-> key, num_sub_pages |-> num_sub_pages,
                   ret |-> 0, sub_page_index |-> sub_page_index,
                   start_index |-> start_index,
                   end_index |-> start_index + sub_page_capacity,
                   slots |-> LeafEntries]
    /\ UNCHANGED hashFrame

\* super_leaf_insert_hashed and its siblings: the element sub_page_idx of the
\* super-leaf's sub_page_blocks, cached_sub_pages and dirty_flags arrays.
SsdSubPageIndex(key, num_sub_pages) ==
    /\ hcall' =
         LET sub_page_idx == hash_key_to_sub_page_ssd(key, num_sub_pages)
         IN  [op |-> "ssd", key |-> key, num_sub_pages |-> num_sub_pages,
              ret |-> 0, sub_page_index |-> sub_page_idx,
              start_index |-> sub_page_idx, end_index |-> sub_page_idx + 1,
              slots |-> num_sub_pages]
    /\ UNCHANGED hashFrame

HashNext ==
    \/ \E key \in HashKeys, n \in 0..HashSubPages : DramSlotRange(key, n)
    \/ \E key \in HashKeys, n \in 1..HashSubPages : SsdSubPageIndex(key, n)

\* The index and the slots of the last computation are inside the arrays.
InsideArrays(h) ==
    /\ 0 <= h.sub_page_index /\ h.sub_page_index < h.num_sub_pages
    /\ 0 <= h.start_index /\ h.end_index <= h.slots

\* C33: for every integer key, negative keys included, the sub-page index
\* computed from the key lies in [0, N), and the slot range derived from it
\* stays inside the leaf's or the super-leaf's arrays.
C33_SubPageIndexInRange ==
    (hcall.op # "none" /\ hcall.ret = 0) => InsideArrays(hcall)

\* The SSD tree's hash alone keeps the index in range, negative keys included.
C33_SsdIndexInRange ==
    (hcall.op = "ssd") => InsideArrays(hcall)

\* The SSD tree's hash has placed a negative key.
C33_Witness ==
    /\ hcall.op = "ssd" /\ hcall.key < 0 /\ hcall.num_sub_pages > 1
    /\ hcall.sub_page_index > 0

(***************************************************************************)
(* Specifications.                                                         *)
(***************************************************************************)
Init == RouterInit /\ DramInit /\ SsdInit /\ LeafInit /\ LoInit /\ LockInit /\ AllocInit /\ HashInit /\ LifeInit

Spec == Init /\ [][RouterNext]_vars
SpecThreads == Init /\ [][ThreadNext]_vars
SpecDram == Init /\ [][DramNext]_vars
SpecTiers == Init /\ [][TiersNext]_vars
SpecSsd == Init /\ [][SsdNext]_vars
SpecSuperLeaf == Init /\ [][LeafNext]_vars
SpecLo == Init /\ [][LoNext]_vars
SpecLocks == Init /\ [][LockNext]_vars
SpecAlloc == Init /\ [][AllocNext]_vars
SpecDramConfig == Init /\ [][DramConfigNext]_vars
SpecSsdFull == Init /\ [][SsdFullNext]_vars
SpecArgs == Init /\ [][ArgsNext]_vars
SpecEvict == Init /\ [][EvictNext]_vars
SpecDramDamage == Init /\ [][DramDamageNext]_vars
SpecHash == Init /\ [][HashNext]_vars
SpecThresholds == Init /\ [][ThresholdsNext]_vars
SpecDestroy == Init /\ [][DestroyNext]_vars
SpecFlusher == Init /\ [][FlusherNext]_vars /\ FlusherFair
SpecShutdown == Init /\ [][ShutdownNext]_vars /\ ShutdownFair

====
